---- MODULE Spec2Model ----
(***************************************************************************)
(* The session orchestrator of btca (services/oc.ts): session start,       *)
(* prompt submission, the filtered event stream and the release of the     *)
(* agent server.  Every slot of Calls is one call of createSession,        *)
(* askQuestion or askQuestionLegacy together with the server, the session  *)
(* and the stream that call owns.                                          *)
(*                                                                         *)
(* The agent's global event stream is modelled as one bus that every       *)
(* stream being consumed reads: each server's events reach at most the     *)
(* streams subscribed to it, so the bus shows every stream a superset of   *)
(* what it can see, events of other sessions included.                     *)
(***************************************************************************)
EXTENDS Naturals, FiniteSets, Sequences, TLC

\* ------------------------------------------------------------------ bounds

\* Explicit endSession calls on one SessionState.
MaxEndCalls == 2
\* Prompts issued in one chat thread.
MaxPrompts == 2

\* The calls of the service that can be in progress at the same time.
Calls == {1, 2}

\* ------------------------------------------------------------------ events

\* An event without a sessionID key in its properties.
NoSid == 0
\* The id session.create returns for the session of call c.
SessionIdOf(c) == c
Sids == {NoSid} \cup {SessionIdOf(c) : c \in Calls}

NoName == "none"
ErrorNames == {NoName, "ProviderAuthError"}

EventTypes == {"message.part.updated", "session.idle", "session.error"}

\* The events of the agent's global stream: type, properties.sessionID and,
\* for session.error, properties.error.name (absent: NoName).
Events ==
    {[type |-> t, sid |-> i, name |-> NoName] :
        t \in EventTypes \ {"session.error"}, i \in Sids}
    \cup {[type |-> "session.error", sid |-> i, name |-> n] :
        i \in Sids, n \in ErrorNames}

NoEvent == [type |-> "none", sid |-> NoSid, name |-> NoName]

\* The filter without its first line: an event without a sessionID is
\* compared with the session's id like any other, and dropped.
SessionFilterNoKeyTest(event, sessionID) == event.sid = sessionID

\* The filter letting every event through.
SessionFilterOff(event, sessionID) == TRUE

\* Stream.filter of streamSessionEvents: an event without a sessionID passes,
\* any other passes only with this session's id.
SessionFilter(event, sessionID) ==
    IF event.sid = NoSid THEN TRUE ELSE event.sid = sessionID

\* The predicate without the comparison of the session id.
IsAnyIdle(event, sessionID) == event.type = "session.idle"

\* The predicate of Stream.takeUntil: the element it holds for is the last
\* element of the stream (takeUntil emits it, then ends).
IsSessionIdle(event, sessionID) ==
    event.type = "session.idle" /\ event.sid = sessionID

UnknownSessionError == "Unknown session error"

\* The message without the agent's name for the error.
SessionErrorMessageFixed(event) == UnknownSessionError

\* The message of the OcError a session.error becomes:
\* props.error?.name ?? 'Unknown session error'.
SessionErrorMessage(event) ==
    IF event.name # NoName THEN event.name ELSE UnknownSessionError

\* Stream.mapEffect of streamPrompt: a session.error fails the stream.
IsSessionError(event) == event.type = "session.error"

\* One event through filter, takeUntil and mapEffect, in this order, for a
\* running stream: what the consumer gets and how the stream goes on.
\*   verdict: "dropped" | "delivered" | "failed"
\*   status : "running" | "done" | "failed"
StreamStep(event, sessionID) ==
    IF ~SessionFilter(event, sessionID)
    THEN [verdict |-> "dropped", status |-> "running", why |-> "none",
          msg |-> "none"]
    ELSE IF IsSessionError(event)
    THEN [verdict |-> "failed", status |-> "failed", why |-> "session.error",
          msg |-> SessionErrorMessage(event)]
    ELSE IF IsSessionIdle(event, sessionID)
    THEN [verdict |-> "delivered", status |-> "done", why |-> "session.idle",
          msg |-> "none"]
    ELSE [verdict |-> "delivered", status |-> "running", why |-> "none",
          msg |-> "none"]

\* -------------------------------------------------------------- validation

Providers == {"opencode", "anthropic", "openai"}
Models == {"big-pickle", "claude"}

\* config.rawConfig(): the configured provider and model.
RawProvider == "opencode"
RawModel == "big-pickle"

\* Providers of one listing.
MaxProviders == 2

\* The lists of at most n elements of a set, no element twice.
ListsOf(set, n) ==
    {l \in UNION {[1 .. m -> set] : m \in 0 .. n} :
        \A i, j \in 1 .. Len(l) : l[i] = l[j] => i = j}

\* Object.keys(provider.models)
ModelKeys == ListsOf(Models, Cardinality(Models))

\* An element of data.all: a provider with its id and its models.
ProviderEntries == [id : Providers, models : ModelKeys]

\* What client.provider.list() can answer with at most n providers: a
\* rejected promise, a response without data, or {all, connected}.
ListingsOf(n) ==
    {[tag |-> "rejected", all |-> <<>>, connected |-> <<>>],
     [tag |-> "nodata", all |-> <<>>, connected |-> <<>>]}
    \cup {[tag |-> "data", all |-> a, connected |-> k] :
            a \in {l \in UNION {[1 .. m -> ProviderEntries] : m \in 0 .. n} :
                      \A i, j \in 1 .. Len(l) : l[i].id = l[j].id => i = j},
            k \in ListsOf(Providers, n)}

\* The answers a session start is given.
ProviderListings == ListingsOf(1)

ValidationErrors ==
    {"InvalidProviderError", "ProviderNotConnectedError", "InvalidModelError"}

NoId == ""

\* The outcome of a validation: it returned, or the error it failed with.
Valid == [tag |-> "ok", providerId |-> NoId, modelId |-> NoId,
          available |-> <<>>]

InvalidProviderError(providerId, availableProviders) ==
    [tag |-> "InvalidProviderError", providerId |-> providerId,
     modelId |-> NoId, available |-> availableProviders]

ProviderNotConnectedError(providerId, connectedProviders) ==
    [tag |-> "ProviderNotConnectedError", providerId |-> providerId,
     modelId |-> NoId, available |-> connectedProviders]

InvalidModelError(providerId, modelId, availableModels) ==
    [tag |-> "InvalidModelError", providerId |-> providerId,
     modelId |-> modelId, available |-> availableModels]

\* A validation that is skipped only when the listing call was rejected.
SkipsValidationOnReject(listing) == listing.tag = "rejected"

\* response._tag === 'None' || !response.value.data
SkipsValidation(listing) == listing.tag = "rejected" \/ listing.tag = "nodata"

\* all.find((p) => p.id === providerId): the position of the first such
\* provider (0: undefined).
Find(all, providerId) ==
    LET at == {i \in 1 .. Len(all) : all[i].id = providerId} IN
    IF at = {} THEN 0 ELSE CHOOSE i \in at : \A j \in at : i <= j

\* A provider that counts as connected whatever the listing says.
IsConnectedAlways(connected, providerId) == TRUE

\* connected.includes(providerId)
IsConnected(connected, providerId) ==
    \E i \in 1 .. Len(connected) : connected[i] = providerId

\* modelIds.includes(modelId)
HasModel(modelIds, modelId) ==
    \E i \in 1 .. Len(modelIds) : modelIds[i] = modelId

\* validateProviderAndModel: it returns, or fails with one of its errors.
ValidateProviderAndModel(listing, providerId, modelId) ==
    IF SkipsValidation(listing) THEN Valid
    ELSE LET all == listing.all
             at == Find(all, providerId)
         IN  IF at = 0
             THEN InvalidProviderError(providerId,
                      [i \in 1 .. Len(all) |-> all[i].id])
             ELSE IF ~IsConnected(listing.connected, providerId)
             THEN ProviderNotConnectedError(providerId, listing.connected)
             ELSE IF ~HasModel(all[at].models, modelId)
             THEN InvalidModelError(providerId, modelId, all[at].models)
             ELSE Valid

\* ------------------------------------------------------------ prompt fiber

\* How the promise of client.session.prompt settles: resolved with data,
\* resolved with an {error} result, or rejected.
PromptOutcomes == {"data", "errorResult", "rejected"}

\* Effect.promise: a resolved promise is a success whatever its value, a
\* rejected promise is a defect (die); Effect.promise has no typed failure.
EffectPromise(outcome) ==
    IF outcome = "rejected" THEN "die" ELSE "success"

\* Effect.catchAll recovers typed failures only: successes and defects pass.
CatchAllHandles(exit) == exit = "fail"

\* firePrompt: the state of errorDeferred once the prompt promise settled;
\* Deferred.fail runs only inside the catchAll handler.
FirePrompt(outcome, errorDeferred) ==
    IF CatchAllHandles(EffectPromise(outcome)) THEN "failed" ELSE errorDeferred

\* ----------------------------------------------------------------- cleanup

Kinds == {"createSession", "askQuestion", "askQuestionLegacy"}

\* Every call handing streamPrompt the cleanup, askInSession too.
HasCleanupAlways(kind) == kind \in Kinds

\* Whether the call hands streamPrompt a cleanup continuation: askQuestion
\* and askQuestionLegacy pass () => server.close(), askInSession passes none.
HasCleanup(kind) == kind \in {"askQuestion", "askQuestionLegacy"}

StreamExits == {"success", "failure", "interrupt"}

\* A finalizer that runs at the normal end of the stream only.
EnsuringRunsOnDone(exit) == exit = "success"

\* Stream.ensuring: the finalizer runs when the stream ends, however it ends.
EnsuringRuns(exit) == exit \in StreamExits

\* Whether the failure branch of session.create closes the server.
ClosesOnSessionError(kind) == kind \in {"createSession", "askQuestion"}

\* ------------------------------------------------------------------- state

VARIABLES
    kind,        \* the service method each call runs
    pc,          \* where each call stands in its method
    server,      \* the agent server of each call: "none", "open", "closed"
    closeCalls,  \* server.close() calls issued on each call's server handle
    err,         \* the error each call surfaced to its caller ("none": none)
    status,      \* the returned stream: "none", "running", "done", "failed",
                 \* "cancelled"
    why,         \* what ended the stream
    msg,         \* the message of the OcError a failed stream failed with
    last,        \* the event the stream handled last and what became of it
    fiber,       \* the daemon fiber of firePrompt: "none", "pending" or how
                 \* the prompt promise settled
    deferred,    \* errorDeferred: "none", "pending", "failed"
    endCalls,    \* endSession calls made on each call's SessionState
    prompts,     \* streams handed out by each call
    callers,     \* the calls the environment makes
    subscribed   \* whether client.event.subscribe() of the call's current
                 \* streamPrompt has resolved

\* getOpencodeInstanceForWorkspace, one run of it per call, and the local
\* ports of the machine.
VARIABLES
    probe,       \* where the run stands: "idle", "probing", "bound",
                 \* "exhausted", "fatal", "closed"
    portOffset,  \* its local portOffset
    tried,       \* the ports it passed to createOpencode, in order
    busyPorts,   \* the ports whose start attempt failed busy
    failure,     \* the failure of its last start attempt
    serverPort,  \* the port its server listens on (0: no server)
    clientPort,  \* the port of its client's baseUrl (0: no client)
    probeErr,    \* the message of the OcError it failed with
    holder       \* who listens on each port: nobody, a process outside
                 \* the service, or the server of a call

\* ensureWorkspace, one run of it per call, and the directories it works on.
VARIABLES
    repoNames,   \* the argument of the run
    ewpc,        \* where the run stands
    sortedRepos, \* its local sortedRepos
    key,         \* its local key
    idx,         \* the position of its current loop in sortedRepos
    ewErr,       \* the error it failed with
    created,     \* the repos it has created a worktree for
    synced,      \* the repos it has cloned or fetched
    after,       \* the runs that had returned a workspace when it began
    dirs,        \* the workspace directories under workspacesDir, by key
    worktrees,   \* the worktrees <<key, repo, ref>> the central clones have
                 \* registered for them
    clones       \* the central clones under reposDir, by repo

sessionVars == <<kind, pc, server, closeCalls, err, status, why, msg, last,
                 fiber, deferred, endCalls, prompts, callers, subscribed>>
portVars == <<probe, portOffset, tried, busyPorts, failure, serverPort,
              clientPort, probeErr, holder>>
workspaceVars == <<repoNames, ewpc, sortedRepos, key, idx, ewErr, created,
                   synced, after, dirs, worktrees, clones>>

\* clearWorkspace, one run of it.
VARIABLES
    clpc,        \* where the run stands
    clKey,       \* its argument key
    clNames,     \* its local repoNames, the parts of the key
    clIdx,       \* the position of its loop in repoNames
    clErr,       \* the error it failed with
    clRemoved    \* the worktrees it has removed

\* The functions of query.ts, applied to one input each.
VARIABLES
    qpc,         \* which function has been applied
    input,       \* the argument of parseQuery, as code units
    parsed,      \* what parseQuery returned for it
    gap,         \* what a renderer puts after each mention
    rendered,    \* parsed written out again as a query string
    reparsed,    \* what parseQuery returns for rendered
    keyIn,       \* the argument of getWorkspaceKey
    keyOut,      \* what getWorkspaceKey returned or threw
    parts,       \* keyOut split on '+'
    mergeIn,     \* the arguments of mergeRepos, a list of lists
    merged,      \* what mergeRepos returned for them
    remerged     \* what mergeRepos returns for merged

\* One validateProviderAndModel call.
VARIABLES
    vpc,         \* where the session start around it stands
    vListing,    \* what client.provider.list() answered
    vProvider,   \* its argument providerId
    vModel,      \* its argument modelId
    vOutcome     \* how it ended

\* The session cache of the TUI services and the createSession and
\* endSession calls that go through it.
VARIABLES
    tpc,         \* where each call stands
    tNames,      \* its argument resourceNames
    tSeen,       \* the cache and the servers as it found them
    tResult,     \* the session it returned
    tSession,    \* the argument session of an endSession call
    currentSession,           \* the cached session (0: null)
    currentSessionResources,  \* the names it was created for
    agent        \* the server of each session of the agent

clearVars == <<clpc, clKey, clNames, clIdx, clErr, clRemoved>>
queryVars == <<qpc, input, parsed, gap, rendered, reparsed, keyIn, keyOut,
               parts, mergeIn, merged, remerged>>

validateVars == <<vpc, vListing, vProvider, vModel, vOutcome>>
tuiVars == <<tpc, tNames, tSeen, tResult, tSession, currentSession,
             currentSessionResources, agent>>

vars == <<sessionVars, portVars, workspaceVars, clearVars, queryVars,
          validateVars, tuiVars>>

\* ------------------------------------------------------------ port probing

\* port: 3420 + portOffset.
BasePort == 3420
maxInstances == 30

\* The local ports the model follows: the probing window and the port above.
PortRange == BasePort .. (BasePort + maxInstances)

\* A start attempt that tries the base port at every offset.
ProbePortFixed(offset) == BasePort

\* createOpencode({ port: 3420 + portOffset, ... }).
ProbePort(offset) == BasePort + offset

\* A client that always targets the base port.
ClientPortBase(offset) == BasePort

\* A client built for the port after the one the server was started on.
ClientPortNext(offset) == BasePort + offset + 1

\* createOpencodeClient({ baseUrl: `http://localhost:${3420 + portOffset}` }).
ClientPort(offset) == BasePort + offset

\* The loop going one offset too far.
LoopContinuesInclusive(offset) == offset <= maxInstances

\* while (portOffset < maxInstances).
LoopContinues(offset) == offset < maxInstances

\* What the catchAll sees of a rejected createOpencode: whether err.cause is
\* an Error, and whether its stack contains 'port' (only an Error has one).
StartFailures ==
    {f \in [kind : {"failure"}, causeIsError : BOOLEAN, stackHasPort : BOOLEAN] :
        f.stackHasPort => f.causeIsError}

NoFailure == [kind |-> "none", causeIsError |-> FALSE, stackHasPort |-> FALSE]

\* The boot error of a server whose port is taken.
BusyFailure ==
    [kind |-> "failure", causeIsError |-> TRUE, stackHasPort |-> TRUE]

\* Every other way a server fails to start.
OtherFailures == StartFailures \ {BusyFailure}

\* A catchAll that retries on the next port whatever the failure.
IsPortBusyAlways(f) == TRUE

\* err.cause instanceof Error && err.cause.stack?.includes('port').
IsPortBusy(f) == f.causeIsError /\ f.stackHasPort

\* Who holds a local port: nobody, a process outside, or a call's server.
Free == <<"free", 0>>
OtherProcess == <<"other", 0>>
ServerOf(c) == <<"call", c>>

CreateClientFailed == "FAILED TO CREATE OPENCODE CLIENT"
PortsExhausted == "FAILED TO CREATE OPENCODE CLIENT - all ports exhausted"

PortsInit ==
    /\ probe = [c \in Calls |-> "idle"]
    /\ portOffset = [c \in Calls |-> 0]
    /\ tried = [c \in Calls |-> <<>>]
    /\ busyPorts = [c \in Calls |-> {}]
    /\ failure = [c \in Calls |-> NoFailure]
    /\ serverPort = [c \in Calls |-> 0]
    /\ clientPort = [c \in Calls |-> 0]
    /\ probeErr = [c \in Calls |-> "none"]
    /\ holder = [p \in PortRange |-> Free]

\* --------------------------------------------------------------- workspaces

\* Repos of one ensureWorkspace call.
MaxRepos == 2

\* The repos of the config file.
Registry == {"a", "b"}

\* The names callers pass, in the order Array.prototype.sort gives them.
NameOrder == <<"A", "a", "b", "zz">>
RepoNames == {NameOrder[i] : i \in 1 .. Len(NameOrder)}

Rank(name) == CHOOSE i \in 1 .. Len(NameOrder) : NameOrder[i] = name

RepoLists == UNION {[1 .. n -> RepoNames] : n \in 0 .. MaxRepos}

RECURSIVE Insert(_, _)
\* name put into a sorted list, behind the names that do not come after it.
Insert(name, list) ==
    IF list = <<>> THEN <<name>>
    ELSE IF Rank(name) < Rank(Head(list)) THEN <<name>> \o list
    ELSE <<Head(list)>> \o Insert(name, Tail(list))

RECURSIVE Sort(_)
\* [...repos].sort(): a sorted copy, duplicates kept.
Sort(list) ==
    IF list = <<>> THEN <<>>
    ELSE Insert(Head(list), Sort(Tail(list)))

RECURSIVE Join(_, _)
\* Array.prototype.join.
Join(list, sep) ==
    IF list = <<>> THEN ""
    ELSE IF Len(list) = 1 THEN Head(list)
    ELSE Head(list) \o sep \o Join(Tail(list), sep)

\* The branch and the ref of a repo of the config file.
Branch(name) == IF name = "a" THEN "main" ELSE "dev"

\* ref: `origin/${repo.branch}`.
Ref(name) == "origin/" \o Branch(name)

\* A call that looks for the workspace directory right after the names are
\* resolved.
SecondPhaseCheck == "check"

\* After the loop over config.getRepo: the loop over
\* config.cloneOrUpdateOneRepoLocally, before directoryExists(workspacePath).
SecondPhase == "sync"

\* if (repoNames.length === 0).
IsEmpty(names) == Len(names) = 0

\* A call that refreshes the central repos before it looks the names up.
FirstPhaseSync == "sync"

\* The loop over config.getRepo comes first, the loop over
\* config.cloneOrUpdateOneRepoLocally second.
FirstPhase == "resolve"

\* A call that builds the workspace whether or not the directory exists.
CreatesWorkspaceAlways(workspaceExists) == TRUE

\* if (!workspaceExists).
CreatesWorkspace(workspaceExists) == ~workspaceExists

\* String.prototype.toLowerCase of a name.
LowerName(name) == IF name = "A" THEN "a" ELSE name

\* A central repo that is refreshed whoever else is refreshing it.
MayFetchAlways(name, inFlight) == TRUE

\* config.cloneOrUpdateOneRepoLocally starts its clone or fetch only when no
\* other one of the same repo is in flight.
MayFetch(name, inFlight) == name \notin inFlight

\* config.getRepo(repoName) finds the repo.
Known(name) == name \in Registry

\* The first name of the list config.getRepo does not find.
FirstUnknown(list) ==
    list[CHOOSE i \in 1 .. Len(list) :
            /\ ~Known(list[i])
            /\ \A j \in 1 .. (i - 1) : Known(list[j])]

\* directoryExists(workspacePath).
directoryExists(path, existing) == path \in existing

\* The worktree createWorktree makes: workspace, repo, ref.
Worktree(workspace, name) == <<workspace, name, Ref(name)>>

\* Some worktree is at <workspacePath>/<name>.
TargetTaken(workspace, name, trees) ==
    \E t \in trees : t[1] = workspace /\ t[2] = name

EmptyRepos == "At least one repo must be specified"
KeyError == "Cannot generate workspace key from empty repos list"

NoError == [tag |-> "none", detail |-> ""]
ConfigError(message) == [tag |-> "ConfigError", detail |-> message]
Defect(message) == [tag |-> "Defect", detail |-> message]
UnknownResource(name) == [tag |-> "UnknownResource", detail |-> name]
RefreshFailed(name) == [tag |-> "RefreshFailed", detail |-> name]
WorktreeFailed(name) == [tag |-> "WorktreeFailed", detail |-> name]

\* A getWorkspaceKey that joins whatever it is given.
getWorkspaceKeyUnchecked(repos) == Join(Sort(repos), "+")

\* getWorkspaceKey: throws on an empty list (here: the message thrown).
getWorkspaceKey(repos) ==
    IF Len(repos) = 0 THEN KeyError ELSE Join(Sort(repos), "+")

WorkspaceInit ==
    /\ repoNames = [c \in Calls |-> <<>>]
    /\ ewpc = [c \in Calls |-> "idle"]
    /\ sortedRepos = [c \in Calls |-> <<>>]
    /\ key = [c \in Calls |-> ""]
    /\ idx = [c \in Calls |-> 0]
    /\ ewErr = [c \in Calls |-> NoError]
    /\ created = [c \in Calls |-> {}]
    /\ synced = [c \in Calls |-> {}]
    /\ after = [c \in Calls |-> {}]
    /\ dirs = {}
    /\ worktrees = {}
    /\ clones = {}

\* ----------------------------------------------------------- clearWorkspace

\* The keys clearWorkspace is called with: names joined with '+'.
ClearKeys == {Join(list, "+") : list \in RepoLists \ {<<>>}}

\* key.split('+'): the names the key was joined from (names have no '+').
Split(k) == CHOOSE list \in RepoLists : Join(list, "+") = k

\* A clear that goes on whether or not the directory exists.
ClearProceedsAlways(exists) == TRUE

\* if (!exists) return yield* Effect.fail(...).
ClearProceeds(exists) == exists

\* new ConfigError({ message: `Workspace "${key}" not found` }).
WorkspaceNotFound(k) == ConfigError("Workspace \"" \o k \o "\" not found")

RemoveFailed(name) == [tag |-> "RemoveFailed", detail |-> name]

ClearInit ==
    /\ clpc = "idle"
    /\ clKey = ""
    /\ clNames = <<>>
    /\ clIdx = 0
    /\ clErr = NoError
    /\ clRemoved = {}

\* ------------------------------------------------------------------ queries

\* Code units of a query string.
MaxLen == 4

\* Names of one getWorkspaceKey call.
MaxKeyNames == 2

\* The code units the strings are made of, and their values.
Units == {"@", "a", "b", "B", " ", "\t", "+"}

Code(u) ==
    CASE u = "\t" -> 9
      [] u = " " -> 32
      [] u = "+" -> 43
      [] u = "@" -> 64
      [] u = "B" -> 66
      [] u = "a" -> 97
      [] u = "b" -> 98

Texts == UNION {[1 .. n -> Units] : n \in 0 .. MaxLen}

\* [a-zA-Z0-9_-]
IsNameUnit(u) == u \in {"a", "b", "B"}

\* \s
IsSpace(u) == u \in {" ", "\t"}

\* A toLowerCase that leaves the letters as they are.
LowerUnitNone(u) == u

\* String.prototype.toLowerCase, unit by unit.
LowerUnit(u) == IF u = "B" THEN "b" ELSE u

toLowerCase(text) == [i \in 1 .. Len(text) |-> LowerUnit(text[i])]

RECURSIVE Before(_, _)
\* The default order of Array.prototype.sort: by code units, a prefix first.
Before(x, y) ==
    IF x = <<>> THEN y # <<>>
    ELSE IF y = <<>> THEN FALSE
    ELSE IF Head(x) = Head(y) THEN Before(Tail(x), Tail(y))
    ELSE Code(Head(x)) < Code(Head(y))

RECURSIVE InsertText(_, _)
InsertText(text, list) ==
    IF list = <<>> THEN <<text>>
    ELSE IF Before(text, Head(list)) THEN <<text>> \o list
    ELSE <<Head(list)>> \o InsertText(text, Tail(list))

RECURSIVE SortTexts(_)
\* [...list].sort()
SortTexts(list) ==
    IF list = <<>> THEN <<>>
    ELSE InsertText(Head(list), SortTexts(Tail(list)))

\* A list whose duplicates are kept.
UniqueNone(list) == list

RECURSIVE Unique(_)
\* [...new Set(list)]: the first occurrence of each element, in order.
Unique(list) ==
    IF list = <<>> THEN <<>>
    ELSE LET front == Unique(SubSeq(list, 1, Len(list) - 1))
             final == list[Len(list)]
         IN  IF \E i \in 1 .. Len(front) : front[i] = final
             THEN front ELSE Append(front, final)

\* The position of the first '@' at or after i that a name unit follows
\* (0: none): where mentionRegex.exec finds its next match.
NextMention(text, i) ==
    LET starts == {p \in i .. Len(text) - 1 :
                      text[p] = "@" /\ IsNameUnit(text[p + 1])}
    IN  IF starts = {} THEN 0
        ELSE CHOOSE p \in starts : \A q \in starts : p <= q

\* The last unit of the match that starts at p: [a-zA-Z0-9_-]+ is greedy.
MentionEnd(text, p) ==
    CHOOSE e \in p + 1 .. Len(text) :
        /\ \A j \in p + 1 .. e : IsNameUnit(text[j])
        /\ (e = Len(text) \/ ~IsNameUnit(text[e + 1]))

RECURSIVE Matches(_, _)
\* The matches of /@([a-zA-Z0-9_-]+)/g from lastIndex i on, left to right.
Matches(text, i) ==
    LET p == NextMention(text, i) IN
    IF p = 0 THEN <<>>
    ELSE <<[from |-> p, to |-> MentionEnd(text, p)]>>
            \o Matches(text, MentionEnd(text, p) + 1)

\* repos.push(match[1].toLowerCase()) for every match.
Pushed(text) ==
    LET ms == Matches(text, 1) IN
    [k \in 1 .. Len(ms) |-> toLowerCase(SubSeq(text, ms[k].from + 1, ms[k].to))]

RECURSIVE Keep(_, _, _)
\* The units of text from i on that no match covers.
Keep(text, ms, i) ==
    IF i > Len(text) THEN <<>>
    ELSE IF \E k \in 1 .. Len(ms) : ms[k].from <= i /\ i <= ms[k].to
    THEN Keep(text, ms, i + 1)
    ELSE <<text[i]>> \o Keep(text, ms, i + 1)

\* input.replace(mentionRegex, '')
StripMentions(text) == Keep(text, Matches(text, 1), 1)

\* A query whose whitespace is left as it is.
CollapseNone(text) == text

RECURSIVE Collapse(_)
\* .replace(/\s+/g, ' '): every run of whitespace becomes one space.
Collapse(text) ==
    IF text = <<>> THEN <<>>
    ELSE IF ~IsSpace(Head(text)) THEN <<Head(text)>> \o Collapse(Tail(text))
    ELSE IF Len(text) > 1 /\ IsSpace(text[2]) THEN Collapse(Tail(text))
    ELSE <<" ">> \o Collapse(Tail(text))

\* A query that is not trimmed.
TrimNone(text) == text

\* .trim()
Trim(text) ==
    LET solid == {i \in 1 .. Len(text) : ~IsSpace(text[i])} IN
    IF solid = {} THEN <<>>
    ELSE SubSeq(text, CHOOSE i \in solid : \A j \in solid : i <= j,
                      CHOOSE i \in solid : \A j \in solid : i >= j)

\* parseQuery
parseQuery(text) ==
    [repos |-> SortTexts(Unique(Pushed(text))),
     query |-> Trim(Collapse(StripMentions(text)))]

\* What a renderer may put after each mention: nothing, a space or a tab.
Gaps == {<<>>, <<" ">>, <<"\t">>}

RECURSIVE Render(_, _, _)
\* A parsed query written out: '@' and the name for each repo, then the query.
Render(names, query, between) ==
    IF names = <<>> THEN query
    ELSE <<"@">> \o Head(names) \o between \o Render(Tail(names), query, between)

\* The names getWorkspaceKey is given.
NameTexts == {<<"a">>, <<"b">>, <<"B">>, <<"a", "b">>, <<"b", "a">>}

KeyInputs == UNION {[1 .. n -> NameTexts] : n \in 0 .. MaxKeyNames}

\* A key whose names follow one another directly.
SeparatorNone == <<>>

\* join('+')
Separator == <<"+">>

\* A getWorkspaceKey that joins the names in the order given.
getWorkspaceKeyTextUnsorted(list) ==
    IF Len(list) = 0 THEN [threw |-> TRUE, key |-> <<>>]
    ELSE [threw |-> FALSE, key |-> Join(list, Separator)]

\* getWorkspaceKey on names as code units: throws on the empty list.
getWorkspaceKeyText(list) ==
    IF Len(list) = 0 THEN [threw |-> TRUE, key |-> <<>>]
    ELSE [threw |-> FALSE, key |-> Join(SortTexts(list), Separator)]

RECURSIVE SplitText(_)
\* key.split('+') on code units.
SplitText(text) ==
    LET plus == {i \in 1 .. Len(text) : text[i] = "+"} IN
    IF plus = {} THEN <<text>>
    ELSE LET p == CHOOSE i \in plus : \A j \in plus : i <= j
         IN  <<SubSeq(text, 1, p - 1)>>
                \o SplitText(SubSeq(text, p + 1, Len(text)))

\* The names mergeRepos is given.
MergeNames == {<<"a">>, <<"B">>, <<"b">>, <<"a", "b">>}

MergeLists == UNION {[1 .. n -> MergeNames] : n \in 0 .. MaxKeyNames}

\* The lists mergeRepos is given: none, one, or the names of the flag and
\* those of the mentions.
MergeInputs == UNION {[1 .. n -> MergeLists] : n \in 0 .. 2}

RECURSIVE Flat(_)
\* repoLists.flat()
Flat(lists) ==
    IF lists = <<>> THEN <<>> ELSE Head(lists) \o Flat(Tail(lists))

\* A mergeRepos that leaves the names in the case they came in.
mergeReposAsGiven(lists) == SortTexts(Unique(Flat(lists)))

\* mergeRepos
mergeRepos(lists) ==
    LET all == [i \in 1 .. Len(Flat(lists)) |-> toLowerCase(Flat(lists)[i])]
    IN  SortTexts(Unique(all))

NoParsed == [repos |-> <<>>, query |-> <<>>]
NoKey == [threw |-> FALSE, key |-> <<>>]

QueryInit ==
    /\ qpc = "idle"
    /\ input = <<>>
    /\ parsed = NoParsed
    /\ gap = <<>>
    /\ rendered = <<>>
    /\ reparsed = NoParsed
    /\ keyIn = <<>>
    /\ keyOut = NoKey
    /\ parts = <<>>
    /\ mergeIn = <<>>
    /\ merged = <<>>
    /\ remerged = <<>>

\* --------------------------------------------------- validation outcome

NoListing == [tag |-> "none", all |-> <<>>, connected |-> <<>>]

ValidateInit ==
    /\ vpc = "validate"
    /\ vListing = NoListing
    /\ vProvider = NoId
    /\ vModel = NoId
    /\ vOutcome = Valid

\* ------------------------------------------------------- TUI session cache

\* Sessions the agent creates.
MaxSessions == 3

Sessions == 1 .. MaxSessions

\* let currentSession: SessionState | null = null
NoSession == 0

\* The resourceNames the TUI asks a session for.
ResourceLists == UNION {[1 .. n -> Registry] : n \in 0 .. MaxRepos}

\* The sessions the agent has created so far.
Created == {s \in Sessions : agent[s] # "none"}

\* The servers of the agent that run.
Open == {s \in Sessions : agent[s] = "open"}

\* currentSessionResources.join(',') !== resourceNames.sort().join(',')
ResourcesChanged(resources, names) ==
    Join(resources, ",") # Join(Sort(names), ",")

\* if (currentSession && ...join(',') !== ...join(','))
EndsCached(cached, changed) == cached # NoSession /\ changed

\* core.agent.createSession: it returns a session with a running server, or
\* fails and leaves none; it fails for no names.
AgentCreates(names, ok) == ok /\ names # <<>>

NoSeen == [session |-> NoSession, resources |-> <<>>, started |-> {}]

TuiInit ==
    /\ tpc = [c \in Calls |-> "idle"]
    /\ tNames = [c \in Calls |-> <<>>]
    /\ tSeen = [c \in Calls |-> NoSeen]
    /\ tResult = [c \in Calls |-> NoSession]
    /\ tSession = [c \in Calls |-> NoSession]
    /\ currentSession = NoSession
    /\ currentSessionResources = <<>>
    /\ agent = [s \in Sessions |-> "none"]

\* ----------------------------------------------------------------- sessions

NoStep == [ev |-> NoEvent, verdict |-> "none"]

Init ==
    /\ kind = [c \in Calls |-> "none"]
    /\ pc = [c \in Calls |-> "new"]
    /\ server = [c \in Calls |-> "none"]
    /\ closeCalls = [c \in Calls |-> 0]
    /\ err = [c \in Calls |-> "none"]
    /\ status = [c \in Calls |-> "none"]
    /\ why = [c \in Calls |-> "none"]
    /\ msg = [c \in Calls |-> "none"]
    /\ last = [c \in Calls |-> NoStep]
    /\ fiber = [c \in Calls |-> "none"]
    /\ deferred = [c \in Calls |-> "none"]
    /\ endCalls = [c \in Calls |-> 0]
    /\ prompts = [c \in Calls |-> 0]
    /\ callers = {1}
    /\ subscribed = [c \in Calls |-> FALSE]
    /\ PortsInit
    /\ WorkspaceInit
    /\ ClearInit
    /\ QueryInit
    /\ ValidateInit
    /\ TuiInit

streamVars == <<status, why, msg, last>>
promptVars == <<fiber, deferred>>
serverVars == <<server, closeCalls>>

Terminated(st) == st \in {"done", "failed", "cancelled"}

\* The stream of call c is being consumed.
Running(c) == pc[c] = "streaming" /\ status[c] = "running"

\* ----------------------------------------------------------- session start

\* The head of createSession, askQuestion and askQuestionLegacy up to the
\* started server: ensureWorkspace and getOpencodeInstanceForWorkspace.
StartServer(c, k) ==
    /\ c \in callers
    /\ pc[c] = "new"
    /\ kind' = [kind EXCEPT ![c] = k]
    /\ server' = [server EXCEPT ![c] = "open"]
    /\ pc' = [pc EXCEPT ![c] = "validate"]
    /\ UNCHANGED <<closeCalls, err, streamVars, promptVars, endCalls, prompts,
                   callers,
                   subscribed>>
    /\ UNCHANGED <<portVars, workspaceVars, clearVars, queryVars,
                   validateVars, tuiVars>>

\* The same head failing before a server runs (unknown repo, git failure,
\* all ports exhausted, fatal boot error).
StartFails(c, k) ==
    /\ c \in callers
    /\ pc[c] = "new"
    /\ kind' = [kind EXCEPT ![c] = k]
    /\ pc' = [pc EXCEPT ![c] = "failed"]
    /\ err' = [err EXCEPT ![c] = "FAILED TO CREATE OPENCODE CLIENT"]
    /\ UNCHANGED <<serverVars, streamVars, promptVars, endCalls, prompts,
                   callers,
                   subscribed>>
    /\ UNCHANGED <<portVars, workspaceVars, clearVars, queryVars,
                   validateVars, tuiVars>>

\* yield* validateProviderAndModel(client, rawConfig.provider, rawConfig.model):
\* a validation error leaves the method at once.
Validate(c) ==
    /\ pc[c] = "validate"
    /\ \E listing \in ProviderListings :
        LET r == ValidateProviderAndModel(listing, RawProvider, RawModel) IN
        IF r = Valid
        THEN /\ pc' = [pc EXCEPT ![c] = "createSession"]
             /\ err' = err
        ELSE /\ pc' = [pc EXCEPT ![c] = "failed"]
             /\ err' = [err EXCEPT ![c] = r.tag]
    /\ UNCHANGED <<kind, serverVars, streamVars, promptVars, endCalls, prompts,
                   callers,
                   subscribed>>
    /\ UNCHANGED <<portVars, workspaceVars, clearVars, queryVars,
                   validateVars, tuiVars>>

SessionStartFailed == "FAILED TO START OPENCODE SESSION"

\* client.session.create() and the if (session.error) branch after it.
CreateSession(c) ==
    /\ pc[c] = "createSession"
    /\ \E failed \in BOOLEAN :
        IF failed
        THEN /\ pc' = [pc EXCEPT ![c] = "failed"]
             /\ err' = [err EXCEPT ![c] = SessionStartFailed]
             /\ IF ClosesOnSessionError(kind[c])
                THEN /\ server' = [server EXCEPT ![c] = "closed"]
                     /\ closeCalls' = [closeCalls EXCEPT ![c] = @ + 1]
                ELSE UNCHANGED serverVars
        ELSE /\ pc' = [pc EXCEPT ![c] =
                        IF kind[c] = "createSession" THEN "ready"
                        ELSE "subscribe"]
             /\ UNCHANGED <<err, serverVars>>
    /\ UNCHANGED <<kind, streamVars, promptVars, endCalls, prompts, callers,
                   subscribed>>
    /\ UNCHANGED <<portVars, workspaceVars, clearVars, queryVars,
                   validateVars, tuiVars>>

\* ------------------------------------------------------------ streamPrompt

\* How Effect sees the end of a stream.
StreamExit(st) ==
    IF st = "done" THEN "success"
    ELSE IF st = "failed" THEN "failure"
    ELSE "interrupt"

\* Whether the stream of call c, reaching status st, runs server.close().
CleanupRuns(c, st) ==
    Terminated(st) /\ HasCleanup(kind[c]) /\ EnsuringRuns(StreamExit(st))

\* The stream of call c ends with status st: the status is recorded and the
\* cleanup continuation, when attached, closes the server.
EndStream(c, st, w, m) ==
    /\ status' = [status EXCEPT ![c] = st]
    /\ why' = [why EXCEPT ![c] = w]
    /\ msg' = [msg EXCEPT ![c] = m]
    /\ IF CleanupRuns(c, st)
       THEN /\ server' = [server EXCEPT ![c] = "closed"]
            /\ closeCalls' = [closeCalls EXCEPT ![c] = @ + 1]
       ELSE UNCHANGED serverVars

\* A chat thread holds a SessionState and no stream of it is being consumed.
ThreadIdle(c) ==
    /\ kind[c] = "createSession"
    /\ \/ pc[c] = "ready"
       \/ pc[c] = "streaming" /\ Terminated(status[c])

\* askInSession: streamPrompt on the thread's session, without cleanup.
AskInSession(c) ==
    /\ ThreadIdle(c)
    /\ prompts[c] < MaxPrompts
    /\ pc' = [pc EXCEPT ![c] = "subscribe"]
    /\ status' = [status EXCEPT ![c] = "none"]
    /\ why' = [why EXCEPT ![c] = "none"]
    /\ msg' = [msg EXCEPT ![c] = "none"]
    /\ last' = [last EXCEPT ![c] = NoStep]
    /\ err' = [err EXCEPT ![c] = "none"]
    /\ subscribed' = [subscribed EXCEPT ![c] = FALSE]
    /\ UNCHANGED <<kind, serverVars, promptVars, endCalls, prompts, callers>>
    /\ UNCHANGED <<portVars, workspaceVars, clearVars, queryVars,
                   validateVars, tuiVars>>

SubscribeFailed == "Failed to subscribe to events"

\* A streamPrompt that goes on to the prompt whatever became of the
\* subscription.
AfterSubscribeAlways(ok, k) == "fork"

\* const eventStream = yield* streamSessionEvents(...): streamPrompt goes on
\* to firePrompt when the subscription is there, and fails with its error
\* otherwise (a thread is ready for its next askInSession then).
AfterSubscribe(ok, k) ==
    IF ok THEN "fork" ELSE IF k = "createSession" THEN "ready" ELSE "failed"

\* streamSessionEvents: client.event.subscribe(). A server that was closed
\* cannot be subscribed to. The failure leaves streamPrompt and the method.
Subscribe(c) ==
    /\ pc[c] = "subscribe"
    /\ \E ok \in BOOLEAN :
        /\ ok => server[c] = "open"
        /\ pc' = [pc EXCEPT ![c] = AfterSubscribe(ok, kind[c])]
        /\ subscribed' = [subscribed EXCEPT ![c] = ok]
        /\ err' = IF ok THEN err ELSE [err EXCEPT ![c] = SubscribeFailed]
    /\ UNCHANGED <<kind, serverVars, streamVars, promptVars, endCalls, prompts,
                   callers>>
    /\ UNCHANGED <<portVars, workspaceVars, clearVars, queryVars,
                   validateVars, tuiVars>>

\* Deferred.make, firePrompt forked as a daemon, the stream built and
\* returned: from here on the consumer runs it.
ForkPrompt(c) ==
    /\ pc[c] = "fork"
    /\ pc' = [pc EXCEPT ![c] = "streaming"]
    /\ deferred' = [deferred EXCEPT ![c] = "pending"]
    /\ fiber' = [fiber EXCEPT ![c] = "pending"]
    /\ status' = [status EXCEPT ![c] = "running"]
    /\ prompts' = [prompts EXCEPT ![c] = @ + 1]
    /\ UNCHANGED <<kind, serverVars, err, why, msg, last, endCalls, callers,
                   subscribed>>
    /\ UNCHANGED <<portVars, workspaceVars, clearVars, queryVars,
                   validateVars, tuiVars>>

PromptFailed == "prompt submission failed"

\* The promise of client.session.prompt settles in the daemon fiber;
\* Stream.interruptWhen(Deferred.await(errorDeferred)) fails a running stream
\* as soon as errorDeferred has failed.
PromptSettles(c, outcome) ==
    /\ fiber[c] = "pending"
    /\ fiber' = [fiber EXCEPT ![c] = outcome]
    /\ LET d == FirePrompt(outcome, deferred[c]) IN
        /\ deferred' = [deferred EXCEPT ![c] = d]
        /\ IF d = "failed" /\ Running(c)
           THEN EndStream(c, "failed", "prompt", PromptFailed)
           ELSE UNCHANGED <<status, why, msg, serverVars>>
    /\ UNCHANGED <<kind, pc, err, last, endCalls, prompts, callers,
                   subscribed>>
    /\ UNCHANGED <<portVars, workspaceVars, clearVars, queryVars,
                   validateVars, tuiVars>>

\* The agent emits one event on the global event stream; every stream being
\* consumed takes it through filter, takeUntil and mapEffect.
Emit(e) ==
    /\ \E c \in Calls : Running(c)
    /\ LET step(c) == StreamStep(e, SessionIdOf(c)) IN
        /\ status' = [c \in Calls |->
                        IF Running(c) THEN step(c).status ELSE status[c]]
        /\ why' = [c \in Calls |-> IF Running(c) THEN step(c).why ELSE why[c]]
        /\ msg' = [c \in Calls |-> IF Running(c) THEN step(c).msg ELSE msg[c]]
        /\ last' = [c \in Calls |->
                        IF Running(c)
                        THEN [ev |-> e, verdict |-> step(c).verdict]
                        ELSE last[c]]
        /\ server' = [c \in Calls |->
                        IF Running(c) /\ CleanupRuns(c, step(c).status)
                        THEN "closed" ELSE server[c]]
        /\ closeCalls' = [c \in Calls |->
                        IF Running(c) /\ CleanupRuns(c, step(c).status)
                        THEN closeCalls[c] + 1 ELSE closeCalls[c]]
    /\ UNCHANGED <<kind, pc, err, promptVars, endCalls, prompts, callers,
                   subscribed>>
    /\ UNCHANGED <<portVars, workspaceVars, clearVars, queryVars,
                   validateVars, tuiVars>>

\* The consumer stops consuming the stream (interruption of its fiber).
Cancel(c) ==
    /\ Running(c)
    /\ EndStream(c, "cancelled", "cancel", "none")
    /\ UNCHANGED <<kind, pc, err, last, promptVars, endCalls, prompts, callers,
                   subscribed>>
    /\ UNCHANGED <<portVars, workspaceVars, clearVars, queryVars,
                   validateVars, tuiVars>>

EventStreamError == "Event stream error"

\* The async iterable of the subscription ends, or throws.
SourceCloses(c, throws) ==
    /\ Running(c)
    /\ IF throws
       THEN EndStream(c, "failed", "source error", EventStreamError)
       ELSE EndStream(c, "done", "source end", "none")
    /\ UNCHANGED <<kind, pc, err, last, promptVars, endCalls, prompts, callers,
                   subscribed>>
    /\ UNCHANGED <<portVars, workspaceVars, clearVars, queryVars,
                   validateVars, tuiVars>>

\* endSession(session): server.close() on the handle of the SessionState.
EndSession(c) ==
    /\ kind[c] = "createSession"
    /\ pc[c] \in {"ready", "subscribe", "fork", "streaming"}
    /\ endCalls[c] < MaxEndCalls
    /\ endCalls' = [endCalls EXCEPT ![c] = @ + 1]
    /\ server' = [server EXCEPT ![c] = "closed"]
    /\ closeCalls' = [closeCalls EXCEPT ![c] = @ + 1]
    /\ UNCHANGED <<kind, pc, err, streamVars, promptVars, prompts, callers,
                   subscribed>>
    /\ UNCHANGED <<portVars, workspaceVars, clearVars, queryVars,
                   validateVars, tuiVars>>

Next ==
    \/ \E c \in Calls, k \in Kinds : StartServer(c, k)
    \/ \E c \in Calls, k \in Kinds : StartFails(c, k)
    \/ \E c \in Calls : Validate(c)
    \/ \E c \in Calls : CreateSession(c)
    \/ \E c \in Calls : AskInSession(c)
    \/ \E c \in Calls : Subscribe(c)
    \/ \E c \in Calls : ForkPrompt(c)
    \/ \E c \in Calls, o \in PromptOutcomes : PromptSettles(c, o)
    \/ \E e \in Events : Emit(e)
    \/ \E c \in Calls : Cancel(c)
    \/ \E c \in Calls, throws \in BOOLEAN : SourceCloses(c, throws)
    \/ \E c \in Calls : EndSession(c)

Spec == Init /\ [][Next]_vars

\* Two calls in progress at the same time (two requests of `btca serve`).
InitShared ==
    /\ kind = [c \in Calls |-> "none"]
    /\ pc = [c \in Calls |-> "new"]
    /\ server = [c \in Calls |-> "none"]
    /\ closeCalls = [c \in Calls |-> 0]
    /\ err = [c \in Calls |-> "none"]
    /\ status = [c \in Calls |-> "none"]
    /\ why = [c \in Calls |-> "none"]
    /\ msg = [c \in Calls |-> "none"]
    /\ last = [c \in Calls |-> NoStep]
    /\ fiber = [c \in Calls |-> "none"]
    /\ deferred = [c \in Calls |-> "none"]
    /\ endCalls = [c \in Calls |-> 0]
    /\ prompts = [c \in Calls |-> 0]
    /\ callers = Calls
    /\ subscribed = [c \in Calls |-> FALSE]
    /\ PortsInit
    /\ WorkspaceInit
    /\ ClearInit
    /\ QueryInit
    /\ ValidateInit
    /\ TuiInit

\* The steps of askQuestion alone.
NextAsk ==
    \/ \E c \in Calls : StartServer(c, "askQuestion")
    \/ \E c \in Calls : StartFails(c, "askQuestion")
    \/ \E c \in Calls : Validate(c)
    \/ \E c \in Calls : CreateSession(c)
    \/ \E c \in Calls : Subscribe(c)
    \/ \E c \in Calls : ForkPrompt(c)
    \/ \E c \in Calls, o \in PromptOutcomes : PromptSettles(c, o)
    \/ \E e \in Events : Emit(e)
    \/ \E c \in Calls : Cancel(c)
    \/ \E c \in Calls, throws \in BOOLEAN : SourceCloses(c, throws)

SpecShared == InitShared /\ [][NextAsk]_vars

\* ------------------------------------- getOpencodeInstanceForWorkspace

\* A call enters the function: portOffset = 0.
BeginProbe(c) ==
    /\ probe[c] = "idle"
    /\ probe' = [probe EXCEPT ![c] = "loop"]
    /\ portOffset' = [portOffset EXCEPT ![c] = 0]
    /\ UNCHANGED <<tried, busyPorts, failure, serverPort, clientPort,
                   probeErr, holder>>
    /\ UNCHANGED <<sessionVars, workspaceVars, clearVars, queryVars,
                   validateVars, tuiVars>>

\* createOpencode resolves: the server is bound to the port, which nobody
\* held, and the client is built for 3420 + portOffset.
AttemptOk(c) ==
    /\ probe[c] = "loop"
    /\ LoopContinues(portOffset[c])
    /\ LET p == ProbePort(portOffset[c]) IN
        /\ holder[p] = Free
        /\ holder' = [holder EXCEPT ![p] = ServerOf(c)]
        /\ tried' = [tried EXCEPT ![c] = Append(@, p)]
        /\ serverPort' = [serverPort EXCEPT ![c] = p]
    /\ clientPort' = [clientPort EXCEPT ![c] = ClientPort(portOffset[c])]
    /\ failure' = [failure EXCEPT ![c] = NoFailure]
    /\ probe' = [probe EXCEPT ![c] = "bound"]
    /\ UNCHANGED <<portOffset, busyPorts, probeErr>>
    /\ UNCHANGED <<sessionVars, workspaceVars, clearVars, queryVars,
                   validateVars, tuiVars>>

\* createOpencode rejects. A held port gives the boot error of a busy port
\* (a free port gives it when another process took the port first); a free
\* port can also fail in every other way. The catchAll moves to the next
\* offset on a busy port and fails the call on anything else.
AttemptFails(c, f) ==
    /\ probe[c] = "loop"
    /\ LoopContinues(portOffset[c])
    /\ LET p == ProbePort(portOffset[c]) IN
        /\ holder[p] # Free => f = BusyFailure
        /\ holder' = IF holder[p] = Free /\ f = BusyFailure
                      THEN [holder EXCEPT ![p] = OtherProcess]
                      ELSE holder
        /\ tried' = [tried EXCEPT ![c] = Append(@, p)]
        /\ busyPorts' = IF f = BusyFailure
                         THEN [busyPorts EXCEPT ![c] = @ \cup {p}]
                         ELSE busyPorts
    /\ failure' = [failure EXCEPT ![c] = f]
    /\ IF IsPortBusy(f)
       THEN /\ portOffset' = [portOffset EXCEPT ![c] = @ + 1]
            /\ UNCHANGED <<probe, probeErr>>
       ELSE /\ probe' = [probe EXCEPT ![c] = "fatal"]
            /\ probeErr' = [probeErr EXCEPT ![c] = CreateClientFailed]
            /\ UNCHANGED portOffset
    /\ UNCHANGED <<serverPort, clientPort>>
    /\ UNCHANGED <<sessionVars, workspaceVars, clearVars, queryVars,
                   validateVars, tuiVars>>

\* The loop ends without a server: all ports exhausted.
Exhausted(c) ==
    /\ probe[c] = "loop"
    /\ ~LoopContinues(portOffset[c])
    /\ probe' = [probe EXCEPT ![c] = "exhausted"]
    /\ probeErr' = [probeErr EXCEPT ![c] = PortsExhausted]
    /\ UNCHANGED <<portOffset, tried, busyPorts, failure, serverPort,
                   clientPort, holder>>
    /\ UNCHANGED <<sessionVars, workspaceVars, clearVars, queryVars,
                   validateVars, tuiVars>>

\* server.close() of a started instance: its port can be bound again.
CloseInstance(c) ==
    /\ probe[c] = "bound"
    /\ probe' = [probe EXCEPT ![c] = "closed"]
    /\ holder' = [p \in PortRange |-> IF holder[p] = ServerOf(c) THEN Free ELSE holder[p]]
    /\ UNCHANGED <<portOffset, tried, busyPorts, failure, serverPort,
                   clientPort, probeErr>>
    /\ UNCHANGED <<sessionVars, workspaceVars, clearVars, queryVars,
                   validateVars, tuiVars>>

NextPorts ==
    \/ \E c \in Calls : BeginProbe(c)
    \/ \E c \in Calls : AttemptOk(c)
    \/ \E c \in Calls, f \in StartFailures : AttemptFails(c, f)
    \/ \E c \in Calls : Exhausted(c)
    \/ \E c \in Calls : CloseInstance(c)

SpecPorts == Init /\ [][NextPorts]_vars

\* ------------------------------------------------------------------ claims

Own(c) == SessionIdOf(c)

\* The stream of call c has handled an event.
Handled(c) == last[c].ev # NoEvent

\* A SessionState of a chat thread exists for call c.
HasSessionState(c) ==
    /\ kind[c] = "createSession"
    /\ pc[c] \in {"ready", "subscribe", "fork", "streaming"}

\* C1: once the stream askQuestion returned has terminated, normally, with
\* an error or cancelled, server.close() has been called on the server that
\* was started for the ask.
C1_AskStreamEndClosesServer ==
    \A c \in Calls :
        (kind[c] = "askQuestion" /\ Terminated(status[c]))
            => (server[c] = "closed" /\ closeCalls[c] >= 1)

\* An ask whose stream was cancelled after it had delivered an event.
C1_Witness ==
    \E c \in Calls :
        /\ kind[c] = "askQuestion"
        /\ status[c] = "cancelled"
        /\ last[c].verdict = "delivered"

\* C2: in every call whose provider/model validation failed, the server
\* started for the call has been closed when the error is surfaced.
C2_ValidationErrorClosesServer ==
    \A c \in Calls :
        err[c] \in ValidationErrors => server[c] = "closed"

\* C3: in every call (createSession, askQuestion, askQuestionLegacy) in
\* which the agent failed to create the session, the server started for the
\* call has been closed when the session-start failure is surfaced, and no
\* stream was handed out.
C3_SessionErrorClosesServer ==
    \A c \in Calls :
        err[c] = SessionStartFailed
            => (server[c] = "closed" /\ status[c] = "none" /\ pc[c] = "failed")

\* C4: however often endSession is called on a SessionState, at most one
\* close is issued on its server handle.
C4_EndSessionClosesOnce ==
    \A c \in Calls :
        HasSessionState(c) => closeCalls[c] <= 1

\* C5: once the prompt submission has failed, the stream is not left
\* running: it has failed with the prompt's failure (or had ended before).
C5_PromptFailureEndsStream ==
    \A c \in Calls :
        (pc[c] = "streaming" /\ fiber[c] \in {"errorResult", "rejected"})
            => status[c] # "running"

\* C6: an event the stream delivers carries no sessionID or the id of its
\* session; an event of another session is dropped; an event without a
\* sessionID is never dropped: it is delivered or, a session.error, it fails
\* the stream.
C6_SessionFilter ==
    \A c \in Calls :
        /\ last[c].verdict = "delivered" => last[c].ev.sid \in {NoSid, Own(c)}
        /\ (Handled(c) /\ last[c].ev.sid \notin {NoSid, Own(c)})
                => last[c].verdict = "dropped"
        /\ (Handled(c) /\ last[c].ev.sid = NoSid)
                => last[c].verdict \in {"delivered", "failed"}

\* An event without a sessionID was delivered and the stream runs on.
C6_Witness ==
    \E c \in Calls :
        /\ Running(c)
        /\ last[c].ev.sid = NoSid
        /\ last[c].verdict = "delivered"

\* C7: the session.idle of the stream's own session ends the stream
\* normally and is the last event it handles, so nothing the agent emits
\* later is delivered; a session.idle of another session, or one without a
\* sessionID, does not end it.
C7_IdleEndsStream ==
    \A c \in Calls :
        /\ (Handled(c) /\ last[c].ev.type = "session.idle"
              /\ last[c].ev.sid = Own(c))
                => /\ status[c] = "done"
                   /\ why[c] = "session.idle"
                   /\ last[c].verdict = "delivered"
        /\ why[c] = "session.idle"
                => (last[c].ev.type = "session.idle" /\ last[c].ev.sid = Own(c))
        /\ (last[c].ev.type = "session.idle" /\ last[c].ev.sid # Own(c))
                => (status[c] # "done" \/ why[c] = "source end")

\* A stream ended by the session.idle of its session.
C7_Witness ==
    \E c \in Calls :
        /\ status[c] = "done"
        /\ why[c] = "session.idle"
        /\ last[c].ev.sid = Own(c)

\* C8: a session.error of the stream's own session fails the stream with
\* the error name the agent gave as message (with 'Unknown session error'
\* when it gave none); the event is the last one the stream handles and no
\* session.error is ever delivered as an element.
C8_SessionErrorFailsStream ==
    \A c \in Calls :
        /\ (last[c].ev.type = "session.error" /\ last[c].ev.sid = Own(c))
                => /\ status[c] = "failed"
                   /\ why[c] = "session.error"
                   /\ last[c].verdict = "failed"
                   /\ last[c].ev.name # NoName => msg[c] = last[c].ev.name
                   /\ last[c].ev.name = NoName => msg[c] = UnknownSessionError
        /\ last[c].verdict = "delivered" => last[c].ev.type # "session.error"

\* A stream failed by a named session.error of its session.
C8_Witness ==
    \E c \in Calls :
        /\ status[c] = "failed"
        /\ last[c].ev.type = "session.error"
        /\ last[c].ev.sid = Own(c)
        /\ msg[c] = "ProviderAuthError"

C10_ThreadServerStaysOpen ==
    \A c \in Calls :
        HasSessionState(c)
            => /\ closeCalls[c] = endCalls[c]
               /\ (server[c] = "open") <=> (endCalls[c] = 0)

\* A thread whose second stream has ended with an error, its server open.
C10_Witness ==
    \E c \in Calls :
        /\ HasSessionState(c)
        /\ prompts[c] >= 2
        /\ status[c] = "failed"
        /\ server[c] = "open"

\* C35: in streamPrompt the prompt is submitted only when the subscription
\* to the event stream has been established, and it is submitted without
\* being waited for: the stream is returned, running, with the prompt
\* pending, so that it is this stream that takes the events that follow.
C35_SubscribedBeforePrompt ==
    [][\A c \in Calls :
          (fiber'[c] = "pending" /\ prompts'[c] = prompts[c] + 1)
              => /\ subscribed[c]
                 /\ pc[c] = "fork"
                 /\ pc'[c] = "streaming"
                 /\ status'[c] = "running"]_vars

\* A stream that has taken an event while its prompt was still pending.
C35_Witness ==
    \E c \in Calls :
        /\ subscribed[c]
        /\ fiber[c] = "pending"
        /\ last[c].verdict = "delivered"

\* C34: in a single-shot ask whose subscription to the event stream failed
\* after the server was started and the session created, the server has been
\* closed when the error is surfaced.
C34_SubscribeFailureClosesServer ==
    \A c \in Calls :
        (kind[c] = "askQuestion" /\ err[c] = SubscribeFailed)
            => server[c] = "closed"

\* ---------------------------------------------------------- ensureWorkspace

\* The call is made: the empty list is refused, anything else is sorted and
\* given its key and path.
BeginEnsure(w, names) ==
    /\ ewpc[w] = "idle"
    /\ repoNames' = [repoNames EXCEPT ![w] = names]
    /\ after' = [after EXCEPT ![w] = {d \in Calls : ewpc[d] = "done"}]
    /\ IF IsEmpty(names)
       THEN /\ ewpc' = [ewpc EXCEPT ![w] = "failed"]
            /\ ewErr' = [ewErr EXCEPT ![w] = ConfigError(EmptyRepos)]
            /\ UNCHANGED <<sortedRepos, key, idx>>
       ELSE IF getWorkspaceKey(Sort(names)) = KeyError
       THEN /\ ewpc' = [ewpc EXCEPT ![w] = "failed"]
            /\ ewErr' = [ewErr EXCEPT ![w] = Defect(KeyError)]
            /\ sortedRepos' = [sortedRepos EXCEPT ![w] = Sort(names)]
            /\ UNCHANGED <<key, idx>>
       ELSE /\ ewpc' = [ewpc EXCEPT ![w] = FirstPhase]
            /\ sortedRepos' = [sortedRepos EXCEPT ![w] = Sort(names)]
            /\ key' = [key EXCEPT ![w] = getWorkspaceKey(Sort(names))]
            /\ idx' = [idx EXCEPT ![w] = 1]
            /\ UNCHANGED ewErr
    /\ UNCHANGED <<created, synced, dirs, worktrees, clones>>
    /\ UNCHANGED <<sessionVars, portVars, clearVars, queryVars,
                   validateVars, tuiVars>>

\* for (const repoName of sortedRepos) config.getRepo(repoName): the first
\* name the config does not have fails the call.
ResolveRepos(w) ==
    /\ ewpc[w] = "resolve"
    /\ IF \A i \in 1 .. Len(sortedRepos[w]) : Known(sortedRepos[w][i])
       THEN /\ ewpc' = [ewpc EXCEPT ![w] = SecondPhase]
            /\ UNCHANGED ewErr
       ELSE /\ ewpc' = [ewpc EXCEPT ![w] = "failed"]
            /\ ewErr' = [ewErr EXCEPT ![w] =
                            UnknownResource(FirstUnknown(sortedRepos[w]))]
    /\ UNCHANGED <<repoNames, sortedRepos, key, idx, created, synced, after,
                   dirs, worktrees, clones>>
    /\ UNCHANGED <<sessionVars, portVars, clearVars, queryVars,
                   validateVars, tuiVars>>

\* The repo the call is refreshing, or is about to.
FetchName(w) == sortedRepos[w][idx[w]]

\* The repos other calls are refreshing.
InFlight(w) == {FetchName(v) : v \in {u \in Calls \ {w} : ewpc[u] = "fetch"}}

\* config.cloneOrUpdateOneRepoLocally of the next repo is called: its clone
\* or fetch starts.
StartRefresh(w) ==
    /\ ewpc[w] = "sync"
    /\ MayFetch(FetchName(w), InFlight(w))
    /\ ewpc' = [ewpc EXCEPT ![w] = "fetch"]
    /\ UNCHANGED <<repoNames, sortedRepos, key, idx, ewErr, created, synced,
                   after, dirs, worktrees, clones>>
    /\ UNCHANGED <<sessionVars, portVars, clearVars, queryVars,
                   validateVars, tuiVars>>

\* The clone or fetch ends: the central repo is there and fresh, or the
\* refresh has failed and with it the call.
RefreshRepo(w, ok) ==
    /\ ewpc[w] = "fetch"
    /\ LET name == FetchName(w) IN
       IF ok
       THEN /\ clones' = clones \cup {name}
            /\ synced' = [synced EXCEPT ![w] = @ \cup {name}]
            /\ IF idx[w] = Len(sortedRepos[w])
               THEN /\ ewpc' = [ewpc EXCEPT ![w] = "check"]
                    /\ idx' = [idx EXCEPT ![w] = 1]
               ELSE /\ ewpc' = [ewpc EXCEPT ![w] = "sync"]
                    /\ idx' = [idx EXCEPT ![w] = @ + 1]
            /\ UNCHANGED ewErr
       ELSE /\ ewpc' = [ewpc EXCEPT ![w] = "failed"]
            /\ ewErr' = [ewErr EXCEPT ![w] = RefreshFailed(name)]
            /\ UNCHANGED <<clones, synced, idx>>
    /\ UNCHANGED <<repoNames, sortedRepos, key, created, after, dirs,
                   worktrees>>
    /\ UNCHANGED <<sessionVars, portVars, clearVars, queryVars,
                   validateVars, tuiVars>>

\* workspaceExists = directoryExists(workspacePath): an existing directory
\* is used as it is.
CheckWorkspace(w) ==
    /\ ewpc[w] = "check"
    /\ ewpc' = [ewpc EXCEPT ![w] =
                   IF CreatesWorkspace(directoryExists(key[w], dirs))
                   THEN "mkdir" ELSE "done"]
    /\ UNCHANGED <<repoNames, sortedRepos, key, idx, ewErr, created, synced,
                   after, dirs, worktrees, clones>>
    /\ UNCHANGED <<sessionVars, portVars, clearVars, queryVars,
                   validateVars, tuiVars>>

\* ensureDirectory(workspacePath).
MakeDirectory(w) ==
    /\ ewpc[w] = "mkdir"
    /\ dirs' = dirs \cup {key[w]}
    /\ ewpc' = [ewpc EXCEPT ![w] = "worktree"]
    /\ idx' = [idx EXCEPT ![w] = 1]
    /\ UNCHANGED <<repoNames, sortedRepos, key, ewErr, created, synced, after,
                   worktrees, clones>>
    /\ UNCHANGED <<sessionVars, portVars, clearVars, queryVars,
                   validateVars, tuiVars>>

\* createWorktree of the next repo: git adds the worktree, or fails (always
\* when the target is there already), which fails the call as it stands.
AddWorktree(w, ok) ==
    /\ ewpc[w] = "worktree"
    /\ LET name == sortedRepos[w][idx[w]] IN
       IF ok /\ ~TargetTaken(key[w], name, worktrees)
       THEN /\ worktrees' = worktrees \cup {Worktree(key[w], name)}
            /\ created' = [created EXCEPT ![w] = @ \cup {name}]
            /\ IF idx[w] = Len(sortedRepos[w])
               THEN /\ ewpc' = [ewpc EXCEPT ![w] = "done"]
                    /\ UNCHANGED idx
               ELSE /\ idx' = [idx EXCEPT ![w] = @ + 1]
                    /\ UNCHANGED ewpc
            /\ UNCHANGED ewErr
       ELSE /\ ewpc' = [ewpc EXCEPT ![w] = "failed"]
            /\ ewErr' = [ewErr EXCEPT ![w] = WorktreeFailed(name)]
            /\ UNCHANGED <<worktrees, created, idx>>
    /\ UNCHANGED <<repoNames, sortedRepos, key, synced, after, dirs, clones>>
    /\ UNCHANGED <<sessionVars, portVars, clearVars, queryVars,
                   validateVars, tuiVars>>

NextWorkspace ==
    \/ \E w \in Calls, names \in RepoLists : BeginEnsure(w, names)
    \/ \E w \in Calls : ResolveRepos(w)
    \/ \E w \in Calls : StartRefresh(w)
    \/ \E w \in Calls, ok \in BOOLEAN : RefreshRepo(w, ok)
    \/ \E w \in Calls : CheckWorkspace(w)
    \/ \E w \in Calls : MakeDirectory(w)
    \/ \E w \in Calls, ok \in BOOLEAN : AddWorktree(w, ok)

SpecWorkspace == Init /\ [][NextWorkspace]_vars

\* ----------------------------------------------------------- clearWorkspace

\* clearWorkspace(key) is called: a key without a directory is refused, any
\* other is split into its names.
BeginClear(k) ==
    /\ clpc = "idle"
    /\ clKey' = k
    /\ IF ClearProceeds(directoryExists(k, dirs))
       THEN /\ clNames' = Split(k)
            /\ clIdx' = 1
            /\ clpc' = "remove"
            /\ UNCHANGED clErr
       ELSE /\ clpc' = "failed"
            /\ clErr' = WorkspaceNotFound(k)
            /\ UNCHANGED <<clNames, clIdx>>
    /\ UNCHANGED clRemoved
    /\ UNCHANGED <<sessionVars, portVars, workspaceVars, queryVars,
                   validateVars, tuiVars>>

\* The next name of the key: when its central repo exists, removeWorktree
\* takes the worktree (if there is one) out of it, or fails and with it the
\* clear.
RemoveNext(ok) ==
    /\ clpc = "remove"
    /\ LET name == clNames[clIdx]
           gone == {t \in worktrees : t[1] = clKey /\ t[2] = name}
       IN
       IF ok \/ ~directoryExists(name, clones)
       THEN /\ IF directoryExists(name, clones)
               THEN /\ worktrees' = worktrees \ gone
                    /\ clRemoved' = clRemoved \cup gone
               ELSE UNCHANGED <<worktrees, clRemoved>>
            /\ IF clIdx = Len(clNames)
               THEN /\ clpc' = "rmdir"
                    /\ UNCHANGED clIdx
               ELSE /\ clIdx' = clIdx + 1
                    /\ UNCHANGED clpc
            /\ UNCHANGED clErr
       ELSE /\ clpc' = "failed"
            /\ clErr' = RemoveFailed(name)
            /\ UNCHANGED <<worktrees, clRemoved, clIdx>>
    /\ UNCHANGED <<clKey, clNames>>
    /\ UNCHANGED <<repoNames, ewpc, sortedRepos, key, idx, ewErr, created,
                   synced, after, dirs, clones>>
    /\ UNCHANGED <<sessionVars, portVars, queryVars, validateVars, tuiVars>>

\* removeDirectory(workspacePath): the clear has succeeded.
RemoveWorkspaceDirectory ==
    /\ clpc = "rmdir"
    /\ dirs' = dirs \ {clKey}
    /\ clpc' = "done"
    /\ UNCHANGED <<clKey, clNames, clIdx, clErr, clRemoved>>
    /\ UNCHANGED <<repoNames, ewpc, sortedRepos, key, idx, ewErr, created,
                   synced, after, worktrees, clones>>
    /\ UNCHANGED <<sessionVars, portVars, queryVars, validateVars, tuiVars>>

\* The ensureWorkspace runs there are beside the clear: one.
BesideClear == {1}

NextClear ==
    \/ \E w \in BesideClear, names \in RepoLists : BeginEnsure(w, names)
    \/ \E w \in Calls : ResolveRepos(w)
    \/ \E w \in Calls : StartRefresh(w)
    \/ \E w \in Calls, ok \in BOOLEAN : RefreshRepo(w, ok)
    \/ \E w \in Calls : CheckWorkspace(w)
    \/ \E w \in Calls : MakeDirectory(w)
    \/ \E w \in Calls, ok \in BOOLEAN : AddWorktree(w, ok)
    \/ \E k \in ClearKeys : BeginClear(k)
    \/ \E ok \in BOOLEAN : RemoveNext(ok)
    \/ RemoveWorkspaceDirectory

SpecClear == Init /\ [][NextClear]_vars

\* ----------------------------------------------------------------- query.ts

\* parseQuery(input).
ParseQuery ==
    /\ qpc = "idle"
    /\ \E text \in Texts :
          /\ input' = text
          /\ parsed' = parseQuery(text)
    /\ qpc' = "parsed"
    /\ UNCHANGED <<gap, rendered, reparsed, keyIn, keyOut, parts>>
    /\ UNCHANGED <<mergeIn, merged, remerged>>
    /\ UNCHANGED <<sessionVars, portVars, workspaceVars, clearVars,
                   validateVars, tuiVars>>

\* The parsed query is written out as a query string again.
RenderParsed(between) ==
    /\ qpc = "parsed"
    /\ gap' = between
    /\ rendered' = Render(parsed.repos, parsed.query, between)
    /\ qpc' = "rendered"
    /\ UNCHANGED <<input, parsed, reparsed, keyIn, keyOut, parts>>
    /\ UNCHANGED <<mergeIn, merged, remerged>>
    /\ UNCHANGED <<sessionVars, portVars, workspaceVars, clearVars,
                   validateVars, tuiVars>>

\* parseQuery of the string written out.
ParseRendered ==
    /\ qpc = "rendered"
    /\ reparsed' = parseQuery(rendered)
    /\ qpc' = "reparsed"
    /\ UNCHANGED <<input, parsed, gap, rendered, keyIn, keyOut, parts>>
    /\ UNCHANGED <<mergeIn, merged, remerged>>
    /\ UNCHANGED <<sessionVars, portVars, workspaceVars, clearVars,
                   validateVars, tuiVars>>

\* getWorkspaceKey(repos).
WorkspaceKey ==
    /\ qpc = "idle"
    /\ \E list \in KeyInputs :
          /\ keyIn' = list
          /\ keyOut' = getWorkspaceKeyText(list)
    /\ qpc' = "keyed"
    /\ UNCHANGED <<input, parsed, gap, rendered, reparsed, parts>>
    /\ UNCHANGED <<mergeIn, merged, remerged>>
    /\ UNCHANGED <<sessionVars, portVars, workspaceVars, clearVars,
                   validateVars, tuiVars>>

\* key.split('+') of the key returned.
SplitKey ==
    /\ qpc = "keyed"
    /\ ~keyOut.threw
    /\ parts' = SplitText(keyOut.key)
    /\ qpc' = "split"
    /\ UNCHANGED <<input, parsed, gap, rendered, reparsed, keyIn, keyOut>>
    /\ UNCHANGED <<mergeIn, merged, remerged>>
    /\ UNCHANGED <<sessionVars, portVars, workspaceVars, clearVars,
                   validateVars, tuiVars>>

\* mergeRepos(...repoLists).
MergeRepos ==
    /\ qpc = "idle"
    /\ \E lists \in MergeInputs :
          /\ mergeIn' = lists
          /\ merged' = mergeRepos(lists)
    /\ qpc' = "merged"
    /\ UNCHANGED remerged
    /\ UNCHANGED <<input, parsed, gap, rendered, reparsed, keyIn, keyOut,
                   parts>>
    /\ UNCHANGED <<sessionVars, portVars, workspaceVars, clearVars,
                   validateVars, tuiVars>>

\* mergeRepos of the list it returned.
MergeMerged ==
    /\ qpc = "merged"
    /\ remerged' = mergeRepos(<<merged>>)
    /\ qpc' = "remerged"
    /\ UNCHANGED <<mergeIn, merged>>
    /\ UNCHANGED <<input, parsed, gap, rendered, reparsed, keyIn, keyOut,
                   parts>>
    /\ UNCHANGED <<sessionVars, portVars, workspaceVars, clearVars,
                   validateVars, tuiVars>>

NextQuery ==
    \/ ParseQuery
    \/ \E between \in Gaps : RenderParsed(between)
    \/ ParseRendered
    \/ WorkspaceKey
    \/ SplitKey
    \/ MergeRepos
    \/ MergeMerged

SpecQuery == Init /\ [][NextQuery]_vars

\* --------------------------------------------------------------- validation

\* yield* validateProviderAndModel(client, providerId, modelId) in a session
\* start: when it returns the start goes on to client.session.create(), when
\* it fails the start fails with its error.
ValidateCall ==
    /\ vpc = "validate"
    /\ \E listing \in ListingsOf(MaxProviders),
          providerId \in Providers, modelId \in Models :
          /\ vListing' = listing
          /\ vProvider' = providerId
          /\ vModel' = modelId
          /\ vOutcome' = ValidateProviderAndModel(listing, providerId, modelId)
          /\ vpc' = IF vOutcome' = Valid THEN "createSession" ELSE "failed"
    /\ UNCHANGED <<sessionVars, portVars, workspaceVars, clearVars, queryVars,
                   tuiVars>>

NextValidate == ValidateCall

SpecValidate == Init /\ [][NextValidate]_vars

\* ------------------------------------------------------- TUI session cache

\* The call has returned or thrown, or none was made.
Settled(c) == tpc[c] \in {"idle", "done", "failed"}

\* The createSession calls under way.
Creating == {c \in Calls : tpc[c] \in {"services", "ending", "ended", "creating"}}

\* services.createSession(resourceNames) is called and awaits getServices().
BeginCreateSession(c, names) ==
    /\ Settled(c)
    /\ Cardinality(Created) + Cardinality(Creating) < MaxSessions
    /\ tpc' = [tpc EXCEPT ![c] = "services"]
    /\ tNames' = [tNames EXCEPT ![c] = names]
    /\ tSeen' = [tSeen EXCEPT ![c] = NoSeen]
    /\ tResult' = [tResult EXCEPT ![c] = NoSession]
    /\ tSession' = [tSession EXCEPT ![c] = NoSession]
    /\ UNCHANGED <<currentSession, currentSessionResources, agent>>
    /\ UNCHANGED <<sessionVars, portVars, workspaceVars, clearVars, queryVars,
                   validateVars>>

\* The two ifs: a cached session of other resources is handed to
\* core.agent.endSession; without a cached session one is created; the
\* cached session of the same resources is returned. resourceNames.sort()
\* sorts the argument in place when there is a cached session.
CompareCache(c) ==
    /\ tpc[c] = "services"
    /\ tSeen' = [tSeen EXCEPT ![c] = [session |-> currentSession,
                                     resources |-> currentSessionResources,
                                     started |-> Created]]
    /\ tNames' = [tNames EXCEPT ![c] =
                     IF currentSession # NoSession THEN Sort(@) ELSE @]
    /\ IF EndsCached(currentSession,
                     ResourcesChanged(currentSessionResources, tNames[c]))
       THEN /\ tpc' = [tpc EXCEPT ![c] = "ending"]
            /\ UNCHANGED tResult
       ELSE IF currentSession = NoSession
       THEN /\ tpc' = [tpc EXCEPT ![c] = "creating"]
            /\ UNCHANGED tResult
       ELSE /\ tpc' = [tpc EXCEPT ![c] = "done"]
            /\ tResult' = [tResult EXCEPT ![c] = currentSession]
    /\ UNCHANGED <<tSession, currentSession, currentSessionResources, agent>>
    /\ UNCHANGED <<sessionVars, portVars, workspaceVars, clearVars, queryVars,
                   validateVars>>

\* core.agent.endSession(currentSession) closes the server of the session
\* the call found cached.
EndCached(c) ==
    /\ tpc[c] = "ending"
    /\ agent' = [agent EXCEPT ![tSeen[c].session] = "closed"]
    /\ tpc' = [tpc EXCEPT ![c] = "ended"]
    /\ UNCHANGED <<tNames, tSeen, tResult, tSession, currentSession,
                   currentSessionResources>>
    /\ UNCHANGED <<sessionVars, portVars, workspaceVars, clearVars, queryVars,
                   validateVars>>

\* The await returns: currentSession = null, and if (!currentSession) goes
\* on to create a session.
ClearCache(c) ==
    /\ tpc[c] = "ended"
    /\ currentSession' = NoSession
    /\ tpc' = [tpc EXCEPT ![c] = "creating"]
    /\ UNCHANGED <<tNames, tSeen, tResult, tSession, currentSessionResources,
                   agent>>
    /\ UNCHANGED <<sessionVars, portVars, workspaceVars, clearVars, queryVars,
                   validateVars>>

\* The creation ends: the new session is cached with the sorted names and
\* returned, or the call throws.
CreateCached(c, ok) ==
    /\ tpc[c] = "creating"
    /\ IF AgentCreates(tNames[c], ok)
       THEN LET new == Cardinality(Created) + 1 IN
            /\ agent' = [agent EXCEPT ![new] = "open"]
            /\ currentSession' = new
            /\ currentSessionResources' = Sort(tNames[c])
            /\ tNames' = [tNames EXCEPT ![c] = Sort(@)]
            /\ tResult' = [tResult EXCEPT ![c] = new]
            /\ tpc' = [tpc EXCEPT ![c] = "done"]
       ELSE /\ tpc' = [tpc EXCEPT ![c] = "failed"]
            /\ UNCHANGED <<agent, currentSession, currentSessionResources,
                           tNames, tResult>>
    /\ UNCHANGED <<tSeen, tSession>>
    /\ UNCHANGED <<sessionVars, portVars, workspaceVars, clearVars, queryVars,
                   validateVars>>

\* services.endSession(session) is called with a session a createSession
\* returned, and awaits getServices().
BeginEndSession(c, s) ==
    /\ Settled(c)
    /\ s \in Created
    /\ tpc' = [tpc EXCEPT ![c] = "closing"]
    /\ tSession' = [tSession EXCEPT ![c] = s]
    /\ tNames' = [tNames EXCEPT ![c] = <<>>]
    /\ tSeen' = [tSeen EXCEPT ![c] = NoSeen]
    /\ tResult' = [tResult EXCEPT ![c] = NoSession]
    /\ UNCHANGED <<currentSession, currentSessionResources, agent>>
    /\ UNCHANGED <<sessionVars, portVars, workspaceVars, clearVars, queryVars,
                   validateVars>>

\* core.agent.endSession(session) closes its server.
EndGiven(c) ==
    /\ tpc[c] = "closing"
    /\ agent' = [agent EXCEPT ![tSession[c]] = "closed"]
    /\ tpc' = [tpc EXCEPT ![c] = "closed"]
    /\ UNCHANGED <<tNames, tSeen, tResult, tSession, currentSession,
                   currentSessionResources>>
    /\ UNCHANGED <<sessionVars, portVars, workspaceVars, clearVars, queryVars,
                   validateVars>>

\* if (currentSession === session): the cache forgets the session ended.
ForgetEnded(c) ==
    /\ tpc[c] = "closed"
    /\ IF currentSession = tSession[c]
       THEN /\ currentSession' = NoSession
            /\ currentSessionResources' = <<>>
       ELSE UNCHANGED <<currentSession, currentSessionResources>>
    /\ tpc' = [tpc EXCEPT ![c] = "idle"]
    /\ UNCHANGED <<tNames, tSeen, tResult, tSession, agent>>
    /\ UNCHANGED <<sessionVars, portVars, workspaceVars, clearVars, queryVars,
                   validateVars>>

\* The one caller of the calls made one after the other.
Sequential == {1}

\* Calls made one after the other: each begins when the one before has
\* returned or thrown.
NextTui ==
    \/ \E c \in Sequential, names \in ResourceLists : BeginCreateSession(c, names)
    \/ \E c \in Sequential, s \in Sessions : BeginEndSession(c, s)
    \/ \E c \in Calls : CompareCache(c)
    \/ \E c \in Calls : EndCached(c)
    \/ \E c \in Calls : ClearCache(c)
    \/ \E c \in Calls, ok \in BOOLEAN : CreateCached(c, ok)
    \/ \E c \in Calls : EndGiven(c)
    \/ \E c \in Calls : ForgetEnded(c)

SpecTui == Init /\ [][NextTui]_vars

\* createSession calls that overlap.
NextTuiOverlap ==
    \/ \E c \in Calls, names \in ResourceLists : BeginCreateSession(c, names)
    \/ \E c \in Calls : CompareCache(c)
    \/ \E c \in Calls : EndCached(c)
    \/ \E c \in Calls : ClearCache(c)
    \/ \E c \in Calls, ok \in BOOLEAN : CreateCached(c, ok)

SpecTuiOverlap == Init /\ [][NextTuiOverlap]_vars

\* ------------------------------------------------------------ port claims

\* The call has a started server (running or closed since).
Started(c) == probe[c] \in {"bound", "closed"}

\* The ports P0 .. P0 + n - 1.
Window(n) == {BasePort + i : i \in 0 .. n - 1}

\* C11: a start tries 3420, 3421, ... in increasing order, one port after the
\* other, and the server it starts is on the first port whose attempt did not
\* fail busy: every port tried before it was busy, the client targets it, and
\* with 3420 and 3421 busy it is 3422.
C11_ProbesInOrder ==
    \A c \in Calls :
        /\ \A i \in 1 .. Len(tried[c]) : tried[c][i] = BasePort + (i - 1)
        /\ Started(c) =>
              /\ Len(tried[c]) >= 1
              /\ serverPort[c] = tried[c][Len(tried[c])]
              /\ clientPort[c] = serverPort[c]
              /\ busyPorts[c] = Window(Len(tried[c]) - 1)
              /\ (busyPorts[c] = {3420, 3421} => serverPort[c] = 3422)

C11_Witness ==
    \E c \in Calls :
        /\ probe[c] = "bound"
        /\ holder[3420] = OtherProcess
        /\ holder[3421] = OtherProcess
        /\ busyPorts[c] = {3420, 3421}
        /\ serverPort[c] = 3422
        /\ holder[3422] = ServerOf(c)

\* C12: a start makes at most N attempts; when all N ports failed busy it ends
\* with the ports-exhausted error, without server, client or held port; when
\* the first N - 1 ports were busy and the last attempt succeeded, the server
\* is on P0 + N - 1.
C12_ExhaustedAfterN ==
    \A c \in Calls :
        /\ Len(tried[c]) <= maxInstances
        /\ (probe[c] = "loop" /\ busyPorts[c] = Window(maxInstances))
              => ~LoopContinues(portOffset[c])
        /\ probe[c] = "exhausted" =>
              /\ Len(tried[c]) = maxInstances
              /\ busyPorts[c] = Window(maxInstances)
              /\ probeErr[c] = PortsExhausted
              /\ serverPort[c] = 0
              /\ clientPort[c] = 0
              /\ \A p \in PortRange : holder[p] # ServerOf(c)
        /\ (Started(c) /\ busyPorts[c] = Window(maxInstances - 1))
              => serverPort[c] = BasePort + maxInstances - 1

C12_Witness ==
    \E c, d \in Calls :
        /\ probe[c] = "exhausted"
        /\ probe[d] = "bound"
        /\ busyPorts[d] = Window(maxInstances - 1)
        /\ serverPort[d] = BasePort + maxInstances - 1

\* C13: a start attempt that fails otherwise than with the busy-port boot
\* error ends the call with the create-client error and without a server; the
\* failing port is the last one tried, and the call tries nothing after it.
C13_OtherFailureIsFatal ==
    /\ [](\A c \in Calls :
            /\ failure[c] \in OtherFailures <=> probe[c] = "fatal"
            /\ probe[c] = "fatal" =>
                  /\ probeErr[c] = CreateClientFailed
                  /\ serverPort[c] = 0
                  /\ tried[c][Len(tried[c])] = BasePort + portOffset[c]
                  /\ tried[c][Len(tried[c])] \notin busyPorts[c])
    /\ [][\A c \in Calls :
            probe[c] = "fatal" =>
                /\ probe'[c] = "fatal"
                /\ tried'[c] = tried[c]
                /\ portOffset'[c] = portOffset[c]]_vars

C13_Witness ==
    \E c \in Calls :
        /\ probe[c] = "fatal"
        /\ failure[c] \in OtherFailures
        /\ busyPorts[c] = {3420}
        /\ tried[c] = <<3420, 3421>>

\* C14: two calls whose servers run at the same time have servers on different
\* ports and clients for different ports, also when both probed the window at
\* the same time.
C14_DistinctPorts ==
    \A c, d \in Calls :
        (c # d /\ probe[c] = "bound" /\ probe[d] = "bound") =>
            /\ serverPort[c] # serverPort[d]
            /\ clientPort[c] # clientPort[d]
            /\ holder[serverPort[c]] = ServerOf(c)
            /\ holder[clientPort[c]] = ServerOf(c)

C14_Witness ==
    \E c, d \in Calls :
        /\ c # d
        /\ probe[c] = "bound"
        /\ probe[d] = "bound"
        /\ serverPort[d] \in busyPorts[c]
        /\ serverPort[c] > serverPort[d]

\* C37: the client returned with a server targets the port the server was
\* started on, which is 3420 plus the number of start attempts of the call
\* that failed busy.
C37_ClientTargetsServerPort ==
    \A c \in Calls :
        Started(c) =>
            /\ clientPort[c] = serverPort[c]
            /\ serverPort[c] = BasePort + Cardinality(busyPorts[c])
            /\ serverPort[c] = tried[c][Len(tried[c])]

\* A server started on 3421 after one busy failure, its client on 3421.
C37_Witness ==
    \E c \in Calls :
        /\ probe[c] = "bound"
        /\ busyPorts[c] = {BasePort}
        /\ serverPort[c] = BasePort + 1
        /\ clientPort[c] = BasePort + 1
        /\ holder[BasePort + 1] = ServerOf(c)

\* -------------------------------------------------------- workspace claims

\* Every member of the call's list has its worktree in the call's workspace,
\* at the ref of its branch.
AllWorktrees(w) ==
    \A i \in 1 .. Len(sortedRepos[w]) :
        Worktree(key[w], sortedRepos[w][i]) \in worktrees

\* The call is between its look at the directory and its last worktree.
InCreation(w) == ewpc[w] \in {"mkdir", "worktree"}

\* C15: when ensureWorkspace has succeeded, every member of its list has a
\* worktree at <key>/<name> at origin/<branch>, whether the call built the
\* workspace or found its directory.
C15_SuccessHasAllWorktrees ==
    \A w \in Calls : ewpc[w] = "done" => AllWorktrees(w)

\* C16: a call made after a call with the same list has succeeded has the
\* same key, never builds anything (no directory, no worktree, no failed
\* worktree), and succeeds with that key if it succeeds.
C16_SecondCallCreatesNothing ==
    \A w \in Calls : \A d \in after[w] :
        repoNames[d] = repoNames[w] =>
            /\ key[w] = key[d]
            /\ sortedRepos[w] = sortedRepos[d]
            /\ created[w] = {}
            /\ ~InCreation(w)
            /\ ewErr[w].tag \in {"none", "RefreshFailed"}

C16_Witness ==
    \E w, d \in Calls :
        /\ d \in after[w]
        /\ repoNames[d] = <<"b", "a">>
        /\ repoNames[w] = repoNames[d]
        /\ created[d] = {"a", "b"}
        /\ ewpc[w] = "done"
        /\ key[w] = "a+b"
        /\ created[w] = {}

\* C17: when a call has failed while adding worktrees, none of the worktrees
\* it added is left, and its directory is gone unless another call uses it.
C17_FailedCreationLeavesNothing ==
    \A w \in Calls :
        ewErr[w].tag = "WorktreeFailed" =>
            /\ \A name \in created[w] :
                  Worktree(key[w], name) \notin worktrees
            /\ (\A v \in Calls \ {w} : key[v] # key[w]) => key[w] \notin dirs

\* C18: of two calls for the same list, at most one is building the workspace
\* at a time, and a call that succeeds while the other has not failed returns
\* a workspace with every member's worktree.
C18_SameSetSerialised ==
    \A w, v \in Calls :
        (w # v /\ ewpc[w] # "idle" /\ sortedRepos[w] = sortedRepos[v]) =>
            /\ ~(InCreation(w) /\ InCreation(v))
            /\ (ewpc[w] = "done" /\ ewpc[v] # "failed") => AllWorktrees(w)

\* C19: a call whose list has a name the config does not know refreshes no
\* central repo and builds no directory and no worktree; it fails with the
\* unknown-repo error for the first such name.
C19_UnknownNameFailsFirst ==
    \A w \in Calls :
        (ewpc[w] # "idle" /\ \E i \in 1 .. Len(repoNames[w]) :
                                ~Known(repoNames[w][i])) =>
            /\ ewpc[w] \in {"resolve", "failed"}
            /\ synced[w] = {}
            /\ created[w] = {}
            /\ key[w] \notin dirs
            /\ \A t \in worktrees : t[1] # key[w]
            /\ ewpc[w] = "failed" =>
                  ewErr[w] = UnknownResource(FirstUnknown(sortedRepos[w]))

C19_Witness ==
    \E w \in Calls :
        /\ repoNames[w] = <<"zz", "a">>
        /\ ewpc[w] = "failed"
        /\ ewErr[w] = UnknownResource("zz")
        /\ "a" \notin clones

\* C20: getWorkspaceKey of the empty list is its error, and ensureWorkspace of
\* the empty list fails with the config error at once: it has no key and no
\* path, and builds nothing.
C20_EmptyListFails ==
    /\ getWorkspaceKey(<<>>) = KeyError
    /\ \A w \in Calls :
          (ewpc[w] # "idle" /\ repoNames[w] = <<>>) =>
              /\ ewpc[w] = "failed"
              /\ ewErr[w] = ConfigError(EmptyRepos)
              /\ key[w] = ""
              /\ created[w] = {}
              /\ synced[w] = {}
              /\ \A k \in dirs : \E v \in Calls \ {w} : key[v] = k

C20_Witness ==
    \E w \in Calls :
        /\ repoNames[w] = <<>>
        /\ ewpc[w] = "failed"
        /\ ewErr[w] = ConfigError(EmptyRepos)
        /\ dirs = {}

\* The repository set a list of names denotes: lowercase, no duplicates.
Members(names) == {LowerName(names[i]) : i \in 1 .. Len(names)}

\* The list of a set of names, in ascending order.
RECURSIVE Ascending(_)
Ascending(set) ==
    IF set = {} THEN <<>>
    ELSE LET least == CHOOSE n \in set : \A m \in set : Rank(n) <= Rank(m)
         IN  <<least>> \o Ascending(set \ {least})

\* C21: calls whose lists denote the same repository set (whatever the
\* order, the duplicates and the letter case) have the same key, the key of
\* the lowercase, duplicate-free, sorted list; a call that has succeeded has a
\* workspace with exactly one worktree for each member.
C21_CanonicalInput ==
    \A w \in Calls :
        (ewpc[w] # "idle" /\ repoNames[w] # <<>>) =>
            /\ key[w] = Join(Ascending(Members(repoNames[w])), "+")
            /\ \A v \in Calls :
                  (ewpc[v] # "idle"
                     /\ Members(repoNames[v]) = Members(repoNames[w]))
                  => key[v] = key[w]
            /\ ewpc[w] = "done" =>
                  {t \in worktrees : t[1] = key[w]}
                     = {Worktree(key[w], m) : m \in Members(repoNames[w])}

Requested(w) == {sortedRepos[w][i] : i \in 1 .. Len(sortedRepos[w])}

\* C36: an ensureWorkspace call refreshes a central clone only when it has
\* resolved all its names, and looks for the workspace directory, creates it
\* or returns only when it has refreshed the clone of every member, also
\* when it finds the workspace there and creates nothing.
C36_ResolveRefreshCheck ==
    \A w \in Calls :
        /\ (ewpc[w] \in {"sync", "fetch"} \/ synced[w] # {})
              => \A n \in Requested(w) : Known(n)
        /\ ewpc[w] = "resolve" => synced[w] = {}
        /\ (ewpc[w] \in {"check", "mkdir", "worktree", "done"} \/ created[w] # {})
              => synced[w] = Requested(w)

\* A call that found the workspace of a and b there, after it had refreshed
\* both.
C36_Witness ==
    \E w \in Calls :
        /\ ewpc[w] = "done"
        /\ sortedRepos[w] = <<"a", "b">>
        /\ synced[w] = {"a", "b"}
        /\ created[w] = {}
        /\ after[w] # {}

\* ------------------------------------------------------------ clear claims

\* C22: at the step that lets clearWorkspace(key) succeed, the directory of
\* the key is gone and no central repo has a worktree registered for it.
C22_ClearedIsGone ==
    [][(clpc # "done" /\ clpc' = "done") =>
          /\ clKey' \notin dirs'
          /\ \A t \in worktrees' : t[1] # clKey']_vars

\* C23: clearWorkspace(key) of a key that has no directory fails at once with
\* the not-found error and does nothing else, then or later: no worktree and
\* no directory is removed.
C23_ClearMissingFails ==
    /\ [](clErr = WorkspaceNotFound(clKey) =>
            /\ clpc = "failed"
            /\ clRemoved = {}
            /\ clNames = <<>>)
    /\ [][(clpc = "idle" /\ clpc' # "idle" /\ clKey' \notin dirs) =>
            /\ clpc' = "failed"
            /\ clErr' = WorkspaceNotFound(clKey')
            /\ UNCHANGED <<dirs, worktrees, clones>>]_vars
    /\ [][(clpc = "failed" /\ clErr = WorkspaceNotFound(clKey)) =>
            UNCHANGED clearVars]_vars

C23_Witness ==
    /\ clpc = "failed"
    /\ clKey = "b"
    /\ clErr = ConfigError("Workspace \"b\" not found")
    /\ dirs = {"a+b"}
    /\ worktrees = {Worktree("a+b", "a"), Worktree("a+b", "b")}

\* ------------------------------------------------------------ query claims

\* getWorkspaceKey has been applied.
Keyed == qpc \in {"keyed", "split"}

\* The orders a list of n names can be given in.
Orders(n) == {f \in [1 .. n -> 1 .. n] : \A i, j \in 1 .. n : f[i] = f[j] => i = j}

\* C25: getWorkspaceKey of a non-empty list returns a key, and returns the
\* same key for the list in every other order.
C25_KeyOfEveryOrder ==
    (Keyed /\ keyIn # <<>>) =>
        /\ ~keyOut.threw
        /\ \A f \in Orders(Len(keyIn)) :
              getWorkspaceKeyText([i \in 1 .. Len(keyIn) |-> keyIn[f[i]]]) = keyOut

C25_Witness ==
    /\ qpc = "keyed"
    /\ keyIn = << <<"b">>, <<"a", "b">> >>
    /\ keyOut.key = <<"a", "b", "+", "b">>

\* C26: the key of a non-empty list is its names in lowercase, sorted and
\* joined with '+', and is the key of the lowercase forms of the names.
C26_KeyIsLowercase ==
    (Keyed /\ keyIn # <<>>) =>
        LET lowered == [i \in 1 .. Len(keyIn) |-> toLowerCase(keyIn[i])] IN
        /\ keyOut.key = Join(SortTexts(lowered), <<"+">>)
        /\ keyOut = getWorkspaceKeyText(lowered)

\* [a-z0-9_-]+
IsValidName(text) ==
    /\ text # <<>>
    /\ \A i \in 1 .. Len(text) : text[i] \in {"a", "b"}

\* The list is a set of valid names: no name twice.
IsNameSet(list) ==
    /\ list # <<>>
    /\ \A i \in 1 .. Len(list) : IsValidName(list[i])
    /\ \A i, j \in 1 .. Len(list) : list[i] = list[j] => i = j

NamesOf(list) == {list[i] : i \in 1 .. Len(list)}

\* C27: the key of a set of valid names is the key of no set with other
\* members, and split on '+' it gives the members, each once.
C27_KeyTellsTheSet ==
    (Keyed /\ IsNameSet(keyIn)) =>
        /\ \A other \in KeyInputs :
              (IsNameSet(other) /\ NamesOf(other) # NamesOf(keyIn))
                  => getWorkspaceKeyText(other).key # keyOut.key
        /\ qpc = "split" =>
              /\ NamesOf(parts) = NamesOf(keyIn)
              /\ Len(parts) = Len(keyIn)

C27_Witness ==
    /\ qpc = "split"
    /\ keyIn = << <<"b">>, <<"a">> >>
    /\ keyOut.key = <<"a", "+", "b">>
    /\ parts = << <<"a">>, <<"b">> >>

\* No '@' of the text is followed by a name unit, the text has no two
\* whitespace units in a row, and none at either end.
IsCleanQuery(text) ==
    /\ \A i \in 1 .. Len(text) - 1 :
          /\ ~(text[i] = "@" /\ IsNameUnit(text[i + 1]))
          /\ ~(IsSpace(text[i]) /\ IsSpace(text[i + 1]))
    /\ text # <<>> => (~IsSpace(text[1]) /\ ~IsSpace(text[Len(text)]))

\* C28: the query parseQuery returns has no @mention, no run of whitespace
\* and no whitespace at its ends.
C28_QueryIsClean ==
    /\ qpc \in {"parsed", "rendered", "reparsed"} => IsCleanQuery(parsed.query)
    /\ qpc = "reparsed" => IsCleanQuery(reparsed.query)

C28_Witness ==
    /\ qpc = "parsed"
    /\ input = <<"\t", "@", "B", "+">>
    /\ parsed.query = <<"+">>

\* The @mentions of a text in lowercase: what follows an '@' up to the last
\* name unit in a row.
MentionsOf(text) ==
    {[i \in 1 .. (e - p) |-> IF text[p + i] = "B" THEN "b" ELSE text[p + i]] :
        <<p, e>> \in {pe \in (1 .. Len(text)) \X (1 .. Len(text)) :
            /\ text[pe[1]] = "@"
            /\ pe[1] < pe[2]
            /\ \A j \in pe[1] + 1 .. pe[2] : IsNameUnit(text[j])
            /\ (pe[2] = Len(text) \/ ~IsNameUnit(text[pe[2] + 1]))}}

\* C29: the repos parseQuery returns are the lowercase @mentions of the
\* input, each once, in ascending order.
C29_ReposAreMentions ==
    qpc \in {"parsed", "rendered", "reparsed"} =>
        /\ NamesOf(parsed.repos) = MentionsOf(input)
        /\ \A i \in 1 .. Len(parsed.repos) - 1 :
              Before(parsed.repos[i], parsed.repos[i + 1])

C29_Witness ==
    /\ qpc = "parsed"
    /\ input = <<"@", "b", "@", "B">>
    /\ parsed.repos = << <<"b">> >>

\* C30 as stated: whatever the renderer puts between the mentions and the
\* query, parsing what it wrote gives the parsed value back.
C30_RoundTripAnyRenderer ==
    qpc = "reparsed" => reparsed = parsed

\* C30: when the renderer puts whitespace after each mention, parsing what it
\* wrote gives the parsed value back.
C30_RoundTrip ==
    (qpc = "reparsed" /\ gap # <<>> /\ \A i \in 1 .. Len(gap) : IsSpace(gap[i]))
        => reparsed = parsed

C30_Witness ==
    /\ qpc = "reparsed"
    /\ gap = <<" ">>
    /\ parsed = [repos |-> << <<"a">> >>, query |-> <<"b">>]
    /\ rendered = <<"@", "a", " ", "b">>
    /\ reparsed = parsed

\* -------------------------------------------------------- validation claims

\* validateProviderAndModel has ended.
Validated == vpc \in {"createSession", "failed"}

\* The ids of the providers of data.all.
IdsOf(all) == [i \in 1 .. Len(all) |-> all[i].id]

\* The listing has the provider, has it connected, and has the model among
\* the models of the provider.
InAll == \E i \in 1 .. Len(vListing.all) : vListing.all[i].id = vProvider
InConnected ==
    \E i \in 1 .. Len(vListing.connected) : vListing.connected[i] = vProvider
ModelsOfProvider ==
    (CHOOSE e \in {vListing.all[i] : i \in 1 .. Len(vListing.all)} :
        e.id = vProvider).models
InModels ==
    \E i \in 1 .. Len(ModelsOfProvider) : ModelsOfProvider[i] = vModel

\* C32: when the listing call fails or answers without data, validation
\* succeeds and the session start goes on; validation fails only when the
\* listing answered with data that does not have the provider, does not have
\* it connected, or does not have the model.
C32_FailsOpen ==
    Validated =>
        /\ vListing.tag \in {"rejected", "nodata"} =>
              (vOutcome = Valid /\ vpc = "createSession")
        /\ vpc = "failed" =>
              /\ vListing.tag = "data"
              /\ vOutcome.tag \in ValidationErrors
              /\ ~(InAll /\ InConnected /\ InModels)
        /\ vpc = "createSession" <=> vOutcome = Valid

C32_Witness ==
    /\ vpc = "createSession"
    /\ vListing.tag = "nodata"
    /\ vOutcome = Valid

\* C33: when the listing answers with data, validation succeeds exactly when
\* the provider is in all and in connected and the model is a key of its
\* models; otherwise it fails with InvalidProvider, ProviderNotConnected or
\* InvalidModel, whichever applies first, and the error has the requested ids
\* and all ids of all, all of connected, or all keys of the models.
C33_FirstApplicableError ==
    (Validated /\ vListing.tag = "data") =>
        /\ vOutcome = Valid <=> (InAll /\ InConnected /\ InModels)
        /\ ~InAll =>
              vOutcome = [tag |-> "InvalidProviderError",
                          providerId |-> vProvider, modelId |-> NoId,
                          available |-> IdsOf(vListing.all)]
        /\ (InAll /\ ~InConnected) =>
              vOutcome = [tag |-> "ProviderNotConnectedError",
                          providerId |-> vProvider, modelId |-> NoId,
                          available |-> vListing.connected]
        /\ (InAll /\ InConnected /\ ~InModels) =>
              vOutcome = [tag |-> "InvalidModelError",
                          providerId |-> vProvider, modelId |-> vModel,
                          available |-> ModelsOfProvider]

\* The provider is listed but not connected and the model is not among its
\* models: the error is ProviderNotConnected.
C33_Witness ==
    /\ vpc = "failed"
    /\ vProvider = "anthropic"
    /\ vModel = "claude"
    /\ vListing.all = <<[id |-> "opencode", models |-> <<"claude">>],
                        [id |-> "anthropic", models |-> <<"big-pickle">>]>>
    /\ vListing.connected = <<"opencode">>
    /\ vOutcome = [tag |-> "ProviderNotConnectedError",
                   providerId |-> "anthropic", modelId |-> NoId,
                   available |-> <<"opencode">>]

\* ------------------------------------------------------ session cache claims

\* The resources a list of names names.
ResourcesOf(names) == {names[i] : i \in 1 .. Len(names)}

\* C38: a createSession call made after the one before has ended, for the
\* same set of names as the cached session's, returns the cached session
\* and creates none; for another set, the cached session has been ended
\* when the new one is being created; and at most one server of the
\* sessions it created runs.
C38_SameSetReusesCached ==
    /\ \A c \in Calls :
          /\ (/\ tpc[c] = "done"
              /\ tSeen[c].session # NoSession
              /\ ResourcesOf(tNames[c]) = ResourcesOf(tSeen[c].resources))
                => (tResult[c] = tSeen[c].session /\ Created = tSeen[c].started)
          /\ (tpc[c] = "creating" /\ tSeen[c].session # NoSession)
                => agent[tSeen[c].session] = "closed"
    /\ Cardinality(Open) <= 1

\* C39: when createSession calls that overlapped have all ended, every
\* server they started is the server of the cached session or is closed.
C39_NoSessionLeaked ==
    (\A c \in Calls : Settled(c)) => \A s \in Open : s = currentSession

\* mergeRepos has been applied.
Merged == qpc \in {"merged", "remerged"}

\* The list with its elements in the order f.
Reordered(list, f) == [i \in 1 .. Len(list) |-> list[f[i]]]

\* The list with its names in every order.
Perms(list) == {Reordered(list, g) : g \in Orders(Len(list))}

\* The lists in every order, each with its names in every order.
Shuffles(lists) ==
    LET inner == {x \in [1 .. Len(lists) ->
                            UNION {Perms(lists[i]) : i \in 1 .. Len(lists)}] :
                     \A i \in 1 .. Len(lists) : x[i] \in Perms(lists[i])}
    IN  UNION {Perms(x) : x \in inner}

\* C31: mergeRepos returns the lowercase forms of all names of all lists,
\* each once, in ascending order; it returns the same for the lists and their
\* names in any other order, and returns a merged list as it is.
C31_MergeIsCanonical ==
    Merged =>
        /\ NamesOf(merged) =
              {toLowerCase(mergeIn[i][j]) :
                  <<i, j>> \in {ij \in (1 .. Len(mergeIn)) \X (1 .. MaxKeyNames) :
                                   ij[2] <= Len(mergeIn[ij[1]])}}
        /\ \A i \in 1 .. Len(merged) - 1 : Before(merged[i], merged[i + 1])
        /\ \A other \in Shuffles(mergeIn) : mergeRepos(other) = merged
        /\ qpc = "remerged" => remerged = merged

C31_Witness ==
    /\ qpc = "remerged"
    /\ mergeIn = << << <<"b">>, <<"a", "b">> >>, << <<"B">>, <<"a">> >> >>
    /\ merged = << <<"a">>, <<"a", "b">>, <<"b">> >>
    /\ remerged = merged

====
